---- MODULE Spec2Model ----
(***************************************************************************)
(* A model of the ptypes binary type system of MacHeap (src/lib/ptypes):   *)
(* providers (provider.py), the atomic type and the container              *)
(* (ptype.py), structures (pstruct.py) and arrays (parray.py).             *)
(*                                                                         *)
(* Bytes are small naturals, a byte string is a sequence of them, and      *)
(* Python's None is the one-element sequence None, which no byte string    *)
(* equals.                                                                 *)
(***************************************************************************)
EXTENDS Integers, Sequences, FiniteSets, TLC

\* ------------------------------------------------------------------ bounds
\* longest provider contents
MaxData == 4
\* largest offset an instance or a cursor is placed at
MaxOffset == 2
\* largest amount asked of consume, longest data handed to store
MaxAmount == 3
\* most fields of a structure, most children of a container
MaxFields == 3
\* largest length of an atomic type
MaxLen == 2
\* largest length of an instance that is cast
MaxCast == 3
\* largest key of a definition
MaxKey == 2
MaxBits == 3
MaxInteger == 3
MaxWidth == 8
MaxAlign == 4

\* ------------------------------------------------------------------ values
None == << -1 >>
\* string.offset before the first seek: the class attribute `offset = int`
NoOffset == -1
\* the length of an array that has none (terminated.length = None)
NoLength == -1
\* the root of a union that declares none (union.root = None)
NoRoot == -1
\* the byte utils.padding.source.zero() yields
PadByte == 0
\* the byte the children of a container hold before it is loaded again
OldByte == 9

Min(a, b) == IF a < b THEN a ELSE b
Max(a, b) == IF a < b THEN b ELSE a

\* s[:n] and s[n:] of Python, n >= 0
Take(s, n) == SubSeq(s, 1, Min(n, Len(s)))
Drop(s, n) == SubSeq(s, Min(n, Len(s)) + 1, Len(s))
\* s[a:b] of Python, 0 <= a
Slice(s, a, b) == SubSeq(s, Min(a, Len(s)) + 1, Min(b, Len(s)))

\* utils.padding.fill(amount, source.zero())
Fill(amount) == [i \in 1..amount |-> PadByte]

\* the contents "ABCD...": byte i of the provider holds i
Letters(n) == [i \in 1..n |-> i]

\* every byte string of at most n bytes over the bytes in S
SeqsUpTo(S, n) == UNION {[1..k -> S] : k \in 0..n}

\* ---------------------------------------------------------------- provider

\* string.seek, proxy.seek, lldb.seek: the new cursor and the returned value
ProviderSeek(off, o) == [offset |-> o, result |-> off]

\* empty.seek: assigns a local name and returns 0; the provider keeps no cursor
emptySeek(off, o) == [offset |-> off, result |-> 0]

\* empty.consume: zeroes, as many as asked for
emptyConsume(off, amount) == [status |-> "ok", bytes |-> Fill(amount), offset |-> off]

\* empty.store: reports every byte written and writes none
emptyStore(d, off, bytes) == [status |-> "ok", data |-> d, offset |-> off]

\* a string.consume that refuses a short read
stringConsumeStrict(d, off, amount) ==
    IF amount = 0 THEN [status |-> "ok", bytes |-> <<>>, offset |-> off]
    ELSE IF off = NoOffset \/ off + amount > Len(d)
    THEN [status |-> "ConsumeError", bytes |-> <<>>, offset |-> off]
    ELSE [status |-> "ok", bytes |-> SubSeq(d, off + 1, off + amount),
          offset |-> off + amount]

\* string.consume
stringConsume(d, off, amount) ==
    IF amount = 0 THEN [status |-> "ok", bytes |-> <<>>, offset |-> off]
    ELSE IF off = NoOffset \/ off >= Len(d)
    THEN [status |-> "ConsumeError", bytes |-> <<>>, offset |-> off]
    ELSE LET minimum == Min(off + amount, Len(d))
             res == SubSeq(d, off + 1, minimum)
         IN  IF res = <<>> /\ amount > 0
             THEN [status |-> "ConsumeError", bytes |-> <<>>, offset |-> off]
             ELSE [status |-> "ok", bytes |-> res,
                   offset |-> IF Len(res) = amount THEN off + amount ELSE off]

\* proxy.consume, buf being the serialization of the proxied type
proxyConsume(buf, off, amount) ==
    LET left == off
        right == off + amount
    IN  IF amount >= 0 /\ left >= 0 /\ right <= Len(buf)
        THEN [status |-> "ok", bytes |-> SubSeq(buf, left + 1, right),
              offset |-> off + amount]
        ELSE [status |-> "ConsumeError", bytes |-> <<>>, offset |-> off]

\* lldb.consume: process.ReadMemory reads the mapped bytes 0..Len(d)-1
lldbConsume(d, address, amount) ==
    IF amount < 0 THEN [status |-> "ConsumeError", bytes |-> <<>>, offset |-> address]
    ELSE IF amount > 0
    THEN LET read == Slice(d, address, address + amount)
         IN  IF Len(read) # amount
             THEN [status |-> "ConsumeError", bytes |-> <<>>, offset |-> address]
             ELSE [status |-> "ok", bytes |-> read, offset |-> address + Len(read)]
    ELSE [status |-> "ok", bytes |-> <<>>, offset |-> address]

\* source.consume(amount) of the provider of class k
Consume(k, d, off, amount) ==
    CASE k = "string" -> stringConsume(d, off, amount)
      [] k = "proxy"  -> proxyConsume(d, off, amount)
      [] OTHER        -> lldbConsume(d, off, amount)

\* string.store: data[left:right] = bytes, which grows or shrinks the array
stringStore(d, off, bytes) ==
    IF off = NoOffset
    THEN [status |-> "StoreError", data |-> d, offset |-> off]
    ELSE LET left == Min(off, Len(d))
             right == Max(left, Min(off + Len(bytes), Len(d)))
         IN  [status |-> "ok",
              data |-> SubSeq(d, 1, left) \o bytes \o SubSeq(d, right + 1, Len(d)),
              offset |-> off + Len(bytes)]

\* lldb.store: process.WriteMemory writes only inside the mapped bytes
lldbStore(d, address, bytes) ==
    LET amount == Max(0, Min(Len(d), address + Len(bytes)) - Min(Len(d), address))
    IN  IF Len(bytes) # amount
        THEN [status |-> "StoreError", data |-> d, offset |-> address]
        ELSE [status |-> "ok",
              data |-> [i \in 1..Len(d) |->
                          IF i > address /\ i <= address + amount
                          THEN bytes[i - address] ELSE d[i]],
              offset |-> address + amount]

\* source.store(bytes) of the provider of class k
Store(k, d, off, bytes) ==
    IF k = "string" THEN stringStore(d, off, bytes) ELSE lldbStore(d, off, bytes)

\* ------------------------------------------------------- ptype.type (atomic)
\* An atomic instance is [offset, length, value], value being None or a byte
\* string; a container's value is a sequence of them.

RECURSIVE SumSeq(_)
SumSeq(s) == IF s = <<>> THEN 0 ELSE s[1] + SumSeq(Tail(s))

\* ptype.type(offset=ofs) of the class whose length is len: not loaded yet
new(length, ofs) == [offset |-> ofs, length |-> length, value |-> None]

\* type.blocksize
type_blocksize(n) == n.length

\* type.initializedQ
type_initializedQ(n) == n.value # None /\ Len(n.value) >= type_blocksize(n)

\* type.size
type_size(n) ==
    IF type_initializedQ(n) \/ (n.value # None /\ n.value # <<>>)
    THEN Len(n.value) ELSE 0

\* a type.__deserialize_block__ that slices one byte short
type_deserialize_block_offbyone(n, block) ==
    LET bs == type_blocksize(n)
    IN  [self |-> [n EXCEPT !.value = Take(block, Max(bs - 1, 0))],
         exc |-> IF Len(block) < bs THEN "StopIteration" ELSE "none"]

\* type.__deserialize_block__: the instance, and the exception it raises
type_deserialize_block(n, block) ==
    LET bs == type_blocksize(n)
    IN  [self |-> [n EXCEPT !.value = Take(block, bs)],
         exc |-> IF Len(block) < bs THEN "StopIteration" ELSE "none"]

\* type.serialize of an instance whose parent, when it has one, is a container
\* of blocksize parentSize at parentOffset
type_serialize(n, hasParent, parentSize, parentOffset) ==
    IF ~type_initializedQ(n)
    THEN LET maxElementSize == parentSize - (n.offset - parentOffset)
             bs == type_blocksize(n)
             res == IF hasParent /\ bs > maxElementSize THEN maxElementSize ELSE bs
             padding == Fill(IF res > 0 THEN res ELSE 0)
         IN  IF n.value = None THEN padding ELSE n.value \o Drop(padding, Len(n.value))
    ELSE n.value

\* base.load of an atomic instance from the provider [kind, data, offset]
type_load(n, src) ==
    LET bs == type_blocksize(n)
        sought == ProviderSeek(src.offset, n.offset).offset
        block == Consume(src.kind, src.data, sought, bs)
        res == type_deserialize_block(n, block.bytes)
    IN  IF block.status # "ok"
        THEN [self |-> n, raised |-> "LoadError", offset |-> block.offset]
        ELSE [self |-> res.self,
              raised |-> IF res.exc = "StopIteration" THEN "LoadError" ELSE "none",
              offset |-> block.offset]

\* base.commit of bytes serialized by an instance at ofs
base_commit(ofs, bytes, src) ==
    LET sought == ProviderSeek(src.offset, ofs).offset
        stored == Store(src.kind, src.data, sought, bytes)
    IN  [raised |-> IF stored.status # "ok" THEN "CommitError" ELSE "none",
         data |-> stored.data, offset |-> stored.offset]

\* ------------------------------------------------------------ ptype.container

\* container.blocksize, or the blocksize custombs a subclass overrides it with
container_blocksize(value, custombs) ==
    IF custombs >= 0 THEN custombs
    ELSE SumSeq([i \in 1..Len(value) |-> type_blocksize(value[i])])

\* container.size
container_size(value) == SumSeq([i \in 1..Len(value) |-> type_size(value[i])])

\* container.initializedQ of a container whose value is not None
container_initializedQ(value, custombs) ==
    /\ \A i \in 1..Len(value) : type_initializedQ(value[i])
    /\ container_size(value) >= container_blocksize(value, custombs)

\* a first loop that keeps no element a short block was cut into
RECURSIVE deserialize_upto_discard(_, _, _, _, _)
deserialize_upto_discard(value, i, block, total, expected) ==
    IF i > Len(value) \/ ~(total < expected)
    THEN [value |-> value, i |-> i, block |-> block, total |-> total, exc |-> "none"]
    ELSE LET bs == type_blocksize(value[i])
             res == type_deserialize_block(value[i], Take(block, bs))
             loaded == [value EXCEPT ![i] = res.self]
         IN  IF res.exc # "none"
             THEN [value |-> value, i |-> i + 1, block |-> block, total |-> total,
                   exc |-> res.exc]
             ELSE deserialize_upto_discard(loaded, i + 1, Drop(block, bs), total + bs,
                                           expected)

\* a first loop that does not stop at the blocksize
RECURSIVE deserialize_upto_all(_, _, _, _, _)
deserialize_upto_all(value, i, block, total, expected) ==
    IF i > Len(value)
    THEN [value |-> value, i |-> i, block |-> block, total |-> total, exc |-> "none"]
    ELSE LET bs == type_blocksize(value[i])
             res == type_deserialize_block(value[i], Take(block, bs))
             loaded == [value EXCEPT ![i] = res.self]
         IN  IF res.exc # "none"
             THEN [value |-> loaded, i |-> i + 1, block |-> block, total |-> total,
                   exc |-> res.exc]
             ELSE deserialize_upto_all(loaded, i + 1, Drop(block, bs), total + bs,
                                       expected)

\* container.__deserialize_block__, first loop: "read everything up to the
\* blocksize"; i is the child popped next
RECURSIVE deserialize_upto(_, _, _, _, _)
deserialize_upto(value, i, block, total, expected) ==
    IF i > Len(value) \/ ~(total < expected)
    THEN [value |-> value, i |-> i, block |-> block, total |-> total, exc |-> "none"]
    ELSE LET bs == type_blocksize(value[i])
             res == type_deserialize_block(value[i], Take(block, bs))
             loaded == [value EXCEPT ![i] = res.self]
         IN  IF res.exc # "none"
             THEN [value |-> loaded, i |-> i + 1, block |-> block, total |-> total,
                   exc |-> res.exc]
             ELSE deserialize_upto(loaded, i + 1, Drop(block, bs), total + bs, expected)

\* container.__deserialize_block__, second loop: "fill out any zero sized
\* elements"
RECURSIVE deserialize_zero(_, _, _)
deserialize_zero(value, i, block) ==
    IF i > Len(value) \/ type_blocksize(value[i]) # 0 THEN value
    ELSE deserialize_zero(
             [value EXCEPT ![i] = type_deserialize_block(value[i], Take(block, 0)).self],
             i + 1, block)

\* container.__deserialize_block__: the children, and the exception it raises
container_deserialize_block(value, block, expected) ==
    LET first == deserialize_upto(value, 1, block, 0, expected)
    IN  IF first.exc # "none" THEN [value |-> first.value, exc |-> first.exc]
        ELSE [value |-> deserialize_zero(first.value, first.i, first.block),
              exc |-> IF first.total < expected THEN "StopIteration"
                      ELSE IF first.total > expected THEN "LoadError"
                      ELSE "none"]

\* base.load of a container: seek, consume blocksize() bytes, deserialize
base_load(value, ofs, custombs, src) ==
    LET bs == container_blocksize(value, custombs)
        sought == ProviderSeek(src.offset, ofs).offset
        block == Consume(src.kind, src.data, sought, bs)
        res == container_deserialize_block(value, block.bytes, bs)
    IN  IF block.status # "ok"
        THEN [value |-> value, raised |-> "LoadError", offset |-> block.offset]
        ELSE [value |-> res.value,
              raised |-> IF res.exc # "none" THEN "LoadError" ELSE "none",
              offset |-> block.offset]

\* a container.load that lets the LoadError of base.load through
container_load_raising(value, ofs, custombs, src) ==
    LET res == base_load(value, ofs, custombs, src)
    IN  [value |-> res.value, raised |-> res.raised, logged |-> "none",
         offset |-> res.offset]

\* container.load of contiguous children: base.load, whose LoadError is caught
\* and logged
container_load(value, ofs, custombs, src) ==
    LET res == base_load(value, ofs, custombs, src)
    IN  IF res.raised = "LoadError"
        THEN [value |-> res.value, raised |-> "none", logged |-> "LoadError",
              offset |-> ProviderSeek(res.offset,
                            ofs + container_blocksize(res.value, custombs)).offset]
        ELSE [value |-> res.value, raised |-> "none", logged |-> "none",
              offset |-> res.offset]

\* pstruct.type.load, the name an element is created with: a name found in
\* the index the loop consults gets the offset of the field within the
\* structure as its suffix (Config.pstruct.use_offset_on_duplicate)
element_name(name, fastindex, ofs, base) ==
    IF name \in fastindex THEN <<name, ofs - base>> ELSE <<name>>

\* an element_name that looks for the name among the elements created so far
element_name_seen(name, names, ofs, base) ==
    IF \E j \in 1..Len(names) : names[j][1] = name
    THEN <<name, ofs - base>> ELSE <<name>>

\* a field_step that loads every element it creates
field_step_loading(field, value, ofs, current, custombs, src) ==
    LET n == new(field.length, ofs)
        res == type_load(n, src)
        bs == type_blocksize(res.self)
    IN  [value |-> Append(value, res.self),
         raised |-> IF field.function THEN res.raised ELSE "none",
         offset |-> res.offset,
         stop |-> res.raised = "none" /\ current # NoLength /\ current + bs > custombs,
         ofs |-> ofs + bs,
         current |-> IF current # NoLength THEN current + bs ELSE current]

\* pstruct.type.load, one pass of the loop over a field whose type is given
\* (resolved is FALSE) or is a function of the structure (resolved is TRUE):
\* the element is created and appended, loaded if its type was a function,
\* and the custom blocksize may end the loop
field_step(field, value, ofs, current, custombs, src) ==
    LET n == new(field.length, ofs)
        res == IF field.function THEN type_load(n, src)
               ELSE [self |-> n, raised |-> "none", offset |-> src.offset]
        bs == type_blocksize(res.self)
    IN  [value |-> Append(value, res.self),
         raised |-> res.raised,
         offset |-> res.offset,
         stop |-> res.raised = "none" /\ current # NoLength /\ current + bs > custombs,
         ofs |-> ofs + bs,
         current |-> IF current # NoLength THEN current + bs ELSE current]

\* pstruct.type.load, the loop that creates one element per field; _fields_ is
\* the sequence of the fields' lengths and current is -1 for Python's None
RECURSIVE pstruct_elements(_, _, _, _, _, _)
pstruct_elements(_fields_, i, value, ofs, current, custombs) ==
    IF i > Len(_fields_) THEN value
    ELSE LET n == new(_fields_[i], ofs)
             bs == type_blocksize(n)
             appended == Append(value, n)
         IN  IF current # -1 /\ current + bs > custombs THEN appended
             ELSE pstruct_elements(_fields_, i + 1, appended, ofs + bs,
                                   IF current # -1 THEN current + bs ELSE current,
                                   custombs)

\* pstruct.type.load
pstruct_load(_fields_, ofs, custombs, src) ==
    container_load(
        pstruct_elements(_fields_, 1, <<>>, ofs, IF custombs >= 0 THEN 0 ELSE -1, custombs),
        ofs, custombs, src)

\* container.serialize of a container without a parent
container_serialize(value, ofs, custombs) ==
    LET bs == container_blocksize(value, custombs)
        parts == [i \in 1..Len(value) |-> type_serialize(value[i], TRUE, bs, ofs)]
        RECURSIVE join(_)
        join(s) == IF s = <<>> THEN <<>> ELSE s[1] \o join(Tail(s))
        result == join(parts)
    IN  IF Len(result) < bs THEN result \o Fill(bs - Len(result)) ELSE result

\* container.commit, the loop that commits the elements one by one: it stops
\* at the first CommitError, which is caught and logged
RECURSIVE commit_elements(_, _, _, _, _, _)
commit_elements(value, i, current, sz, bs, src) ==
    IF i > Len(value) THEN [logged |-> "none", data |-> src.data, offset |-> src.offset]
    ELSE LET res == base_commit(value[i].offset,
                                type_serialize(value[i], TRUE, bs, src.selfoffset), src)
         IN  IF res.raised = "CommitError"
             THEN [logged |-> "CommitError", data |-> res.data, offset |-> res.offset]
             ELSE IF current + type_size(value[i]) > sz
             THEN [logged |-> "none", data |-> res.data, offset |-> res.offset]
             ELSE commit_elements(value, i + 1, current + type_size(value[i]), sz, bs,
                                  [src EXCEPT !.data = res.data, !.offset = res.offset])

\* container.commit of a container of atomic children
container_commit(value, ofs, custombs, src) ==
    LET whole == base_commit(ofs, container_serialize(value, ofs, custombs), src)
        each == commit_elements(value, 1, 0, container_size(value),
                                container_blocksize(value, custombs),
                                [kind |-> src.kind, data |-> whole.data,
                                 offset |-> whole.offset, selfoffset |-> ofs])
    IN  IF whole.raised = "none"
        THEN [raised |-> "none", logged |-> "none", failed |-> FALSE,
              data |-> whole.data, offset |-> whole.offset]
        ELSE [raised |-> "none", logged |-> each.logged, failed |-> TRUE,
              data |-> each.data, offset |-> each.offset]

\* ----------------------------------------------------------------- base.cast
\* An instance is [iscontainer, offset, value]: value holds the one atomic
\* instance itself, or the children of a container. A type t is
\* [iscontainer, length, _object_]: an atomic type of that length, or
\* dynamic.array of length elements of an atomic type of length _object_.

RECURSIVE Join(_)
Join(s) == IF s = <<>> THEN <<>> ELSE s[1] \o Join(Tail(s))

\* self.serialize(), self.blocksize(), self.size(), self.initializedQ() of an
\* instance without a parent
serialize(self) ==
    IF self.iscontainer THEN container_serialize(self.value, self.offset, -1)
    ELSE type_serialize(self.value[1], FALSE, 0, 0)
blocksize(self) ==
    IF self.iscontainer THEN container_blocksize(self.value, -1)
    ELSE type_blocksize(self.value[1])
size(self) ==
    IF self.iscontainer THEN container_size(self.value) ELSE type_size(self.value[1])
initializedQ(self) ==
    IF self.iscontainer THEN container_initializedQ(self.value, -1)
    ELSE type_initializedQ(self.value[1])

\* container.setposition((offset,), recurse=True), on the children
RECURSIVE setposition(_, _, _)
setposition(value, i, ofs) ==
    IF i > Len(value) THEN value
    ELSE setposition([value EXCEPT ![i].offset = ofs], i + 1,
                     ofs + (IF type_initializedQ(value[i]) THEN type_size(value[i])
                            ELSE type_blocksize(value[i])))

\* parray.type.__load_block: length elements of the type _object_
load_block(length, _object_, ofs) ==
    [i \in 1..length |-> new(_object_, ofs + (i - 1) * _object_)]

\* cast, first try block: result.load(offset=0, source=provider.proxy(self),
\* blocksize=lambda:bs), then result.setoffset(result.getoffset(), recurse=True)
cast_load(self, t, data, bs) ==
    LET proxy == [kind |-> "proxy", data |-> data, offset |-> 0]
    IN  IF t.iscontainer
        THEN LET res == container_load(load_block(t.length, t._object_, 0), 0, bs, proxy)
             IN  setposition(res.value, 1, self.offset)
        ELSE LET res == type_load([offset |-> 0, length |-> bs, value |-> None], proxy)
             IN  << [res.self EXCEPT !.offset = self.offset, !.length = t.length] >>

\* cast, second try block: result.__deserialize_block__(data); the exception
\* is the one that escapes `except (error.LoadError, StopIteration): pass`
cast_deserialize(loaded, t, data) ==
    LET res == IF t.iscontainer
               THEN container_deserialize_block(loaded, data,
                                                container_blocksize(loaded, -1))
               ELSE LET r == type_deserialize_block(loaded[1], data)
                    IN  [value |-> << r.self >>, exc |-> r.exc]
    IN  [value |-> res.value,
         raised |-> IF res.exc \in {"LoadError", "StopIteration"} THEN "none"
                    ELSE res.exc]

\* a cast that skips "force partial or overcommited initializations"
cast_unforced(self, t) ==
    LET data == serialize(self)
        bs == blocksize(self)
        loaded == cast_load(self, t, data, bs)
    IN  [result |-> [iscontainer |-> t.iscontainer, offset |-> self.offset,
                     value |-> loaded],
         raised |-> "none"]

\* base.cast
cast(self, t) ==
    LET data == serialize(self)
        bs == blocksize(self)
        loaded == cast_load(self, t, data, bs)
        forced == cast_deserialize(loaded, t, data)
    IN  [result |-> [iscontainer |-> t.iscontainer, offset |-> self.offset,
                     value |-> forced.value],
         raised |-> forced.raised]

\* -------------------------------------------------------------- parray
\* Python's value[i]: the 1-based position of index i in a list of n elements
Position(i, n) == IF i < 0 THEN n + i + 1 ELSE i + 1

\* parray.type.load: the elements are created, then loaded in one block
parray_load(length, _object_, ofs, src) ==
    container_load(load_block(length, _object_, ofs), ofs, -1, src)

\* the loop of _parray_generic.insert: for i in xrange(index, len(self.value))
RECURSIVE insert_reflow(_, _, _)
insert_reflow(value, i, ofs) ==
    IF i >= Len(value) THEN value
    ELSE LET k == Position(i, Len(value))
         IN  insert_reflow([value EXCEPT ![k].offset = ofs], i + 1,
                           ofs + type_blocksize(value[k]))

\* list.insert(index, object)
list_insert(value, index, object) ==
    LET at == Max(0, Min(Len(value), IF index < 0 THEN Len(value) + index ELSE index))
    IN  Take(value, at) \o << object >> \o Drop(value, at)

\* _parray_generic.insert
parray_insert(value, index, object) ==
    IF index >= Len(value) \/ index < -Len(value)
    THEN [value |-> value, raised |-> "IndexError"]
    ELSE LET ofs == value[Position(index, Len(value))].offset
             placed == list_insert(value, index, [object EXCEPT !.offset = ofs])
         IN  [value |-> insert_reflow(placed, index, ofs), raised |-> "none"]

\* isTerminator of the arrays modelled here: the element's integer is zero
isTerminator(n) == n.value # None /\ n.value = Fill(n.length)

\* the loop of terminated.load; stop is the length, NoLength for
\* itertools.count(); sentinel is off for a block array, whose isTerminator
\* answers False
RECURSIVE terminated_loop(_, _, _, _, _, _, _)
terminated_loop(value, index, stop, _object_, ofs, src, sentinel) ==
    IF stop # NoLength /\ index >= stop
    THEN [value |-> value, raised |-> "none", offset |-> src.offset]
    ELSE LET res == type_load(new(_object_, ofs), src)
             appended == Append(value, res.self)
         IN  IF res.raised # "none"
             THEN [value |-> appended, raised |-> "LoadError", offset |-> res.offset]
             ELSE IF (sentinel /\ isTerminator(res.self)) \/ type_blocksize(res.self) <= 0
             THEN [value |-> appended, raised |-> "none", offset |-> res.offset]
             ELSE terminated_loop(appended, index + 1, stop, _object_,
                                  ofs + type_blocksize(res.self),
                                  [src EXCEPT !.offset = res.offset], sentinel)

\* a load that never asks isTerminator
terminated_load_unasked(length, _object_, ofs, src) ==
    terminated_loop(<<>>, 0, length, _object_, ofs, src, FALSE)

\* terminated.load
terminated_load(length, _object_, ofs, src) ==
    terminated_loop(<<>>, 0, length, _object_, ofs, src, TRUE)

\* the loop of block.load
RECURSIVE block_loop(_, _, _, _, _, _)
block_loop(value, _object_, ofs, current, bs, src) ==
    LET res == type_load(new(_object_, ofs), src)
        sz == type_blocksize(res.self)
        appended == Append(value, res.self)
    IN  IF res.raised # "none"
        THEN [value |-> IF current + sz # bs THEN appended ELSE value,
              raised |-> "none", offset |-> res.offset]
        ELSE IF sz <= 0
        THEN [value |-> value, raised |-> "none", offset |-> res.offset]
        ELSE IF current + sz >= bs
        THEN [value |-> appended, raised |-> "none", offset |-> res.offset]
        ELSE block_loop(appended, _object_, ofs + sz, current + sz, bs,
                        [src EXCEPT !.offset = res.offset])

\* block.load
block_load(length, _object_, bs, ofs, src) ==
    IF length # NoLength
    THEN terminated_loop(<<>>, 0, length, _object_, ofs, src, FALSE)
    ELSE IF bs = 0
    THEN [value |-> <<>>, raised |-> "none", offset |-> src.offset]
    ELSE block_loop(<<>>, _object_, ofs, 0, bs, src)

\* infinite.__next_element: the element is created and loaded; its LoadError
\* is caught and logged
next_element(_object_, ofs, src) ==
    LET res == type_load(new(_object_, ofs), src)
    IN  [self |-> res.self, offset |-> res.offset,
         logged |-> IF res.raised # "none" THEN "warn" ELSE "none"]

\* the loop of infinite.load; maximum is the blocksize of the parent, NoLength
\* for an array without a parent
RECURSIVE infinite_loop(_, _, _, _, _, _)
infinite_loop(value, _object_, ofs, current, maximum, src) ==
    IF maximum # NoLength /\ ~(current < maximum)
    THEN [value |-> value, raised |-> "none", offset |-> src.offset]
    ELSE LET n == next_element(_object_, ofs, src)
             appended == Append(value, n.self)
             sz == type_blocksize(n.self)
         IN  IF ~type_initializedQ(n.self) \/ sz <= 0
             THEN [value |-> appended, raised |-> "none", offset |-> n.offset]
             ELSE infinite_loop(appended, _object_, ofs + sz, current + sz, maximum,
                                [src EXCEPT !.offset = n.offset])

\* an infinite.load that drops the element it could not read
infinite_load_dropping(length, _object_, ofs, maximum, src) ==
    LET res == infinite_loop(<<>>, _object_, ofs, 0, maximum, src)
    IN  IF length # NoLength
        THEN terminated_loop(<<>>, 0, length, _object_, ofs, src, FALSE)
        ELSE [res EXCEPT !.value = SelectSeq(res.value, type_initializedQ)]

\* infinite.load; with a length it is terminated.load, whose isTerminator
\* answers False here
infinite_load(length, _object_, ofs, maximum, src) ==
    IF length # NoLength
    THEN terminated_loop(<<>>, 0, length, _object_, ofs, src, FALSE)
    ELSE infinite_loop(<<>>, _object_, ofs, 0, maximum, src)

\* uninitialized.size
uninitialized_size(value) ==
    SumSeq([i \in 1..Len(value) |->
                IF value[i].value = None THEN 0 ELSE type_size(value[i])])

\* --------------------------------------------------------- dynamic.union
\* the largest of a sequence of numbers
RECURSIVE MaxOf(_)
MaxOf(s) == IF s = <<>> THEN 0 ELSE Max(s[1], MaxOf(Tail(s)))

\* a root that is the first field, as the docstring of union has it
choose_root_first(declared, _fields_) ==
    IF declared = NoRoot THEN _fields_[1] ELSE declared

\* union.__choose_root: the length of the root type
choose_root(declared, _fields_) ==
    IF declared = NoRoot THEN MaxOf(_fields_) ELSE declared

\* union.__alloc_root: the root instance, loaded from provider.empty()
alloc_root(declared, _fields_, ofs) ==
    LET length == choose_root(declared, _fields_)
    IN  [offset |-> ofs, length |-> length, value |-> Fill(length)]

\* union.__alloc_objects: one instance per field at offset 0 of the proxy
alloc_objects(_fields_) == [i \in 1..Len(_fields_) |-> new(_fields_[i], 0)]

\* union.alloc, of a union whose value is None
union_alloc(declared, _fields_, ofs) ==
    [value |-> alloc_root(declared, _fields_, ofs), views |-> alloc_objects(_fields_)]

\* union.load, of a union whose value is None
union_load(declared, _fields_, ofs, src) ==
    LET res == type_load(alloc_root(declared, _fields_, ofs), src)
    IN  [value |-> res.self, views |-> alloc_objects(_fields_),
         raised |-> res.raised, offset |-> res.offset]

\* union.__getitem__: a field that is not initialized is loaded through the
\* proxy of the root; a LoadError is no UserError and is not ignored
union_getitem(value, object, name) ==
    IF type_initializedQ(object[name])
    THEN [views |-> object, raised |-> "none"]
    ELSE LET proxy == [kind |-> "proxy", data |-> type_serialize(value, FALSE, 0, 0),
                       offset |-> 0]
             res == type_load(object[name], proxy)
         IN  [views |-> [object EXCEPT ![name] = res.self], raised |-> res.raised]

\* type.__setvalue__
type_setvalue(n, bytes) == [n EXCEPT !.value = bytes, !.length = Len(bytes)]

\* proxy.__write_object
proxy_write_object(n, ofs, bytes) ==
    LET res == type_blocksize(n)
        padding == Fill(res - Min(res, Len(bytes)))
    IN  [n EXCEPT !.value = Take(n.value, ofs) \o bytes \o padding
                            \o Drop(n.value, ofs + Len(bytes))]

\* proxy.store on the proxy of an atomic instance
proxy_store(n, ofs, bytes) ==
    IF ofs >= 0 /\ ofs + Len(bytes) <= type_blocksize(n)
    THEN [status |-> "ok", type |-> proxy_write_object(n, ofs, bytes)]
    ELSE IF bytes = <<>>
    THEN [status |-> "ok", type |-> n]
    ELSE [status |-> "StoreError", type |-> n]

\* base.commit of a field of the union
view_commit(value, n) ==
    LET res == proxy_store(value, ProviderSeek(0, n.offset).offset,
                           type_serialize(n, TRUE, type_blocksize(value), 0))
    IN  [value |-> res.type,
         raised |-> IF res.status = "ok" THEN "none" ELSE "CommitError"]

\* ------------------------------------------------------- ptype.definition
\* A type is a function from the names of its attributes to their values; the
\* attribute "class" tells which class statement made it.

\* ptype.clone: a subclass of cls with the attributes newattrs set
clone(cls, newattrs) ==
    [k \in DOMAIN cls \cup DOMAIN newattrs |->
        IF k \in DOMAIN newattrs THEN newattrs[k] ELSE cls[k]]

\* dict.setdefault
setdefault(d, k, v) == IF k \in DOMAIN d THEN d ELSE clone(d, [x \in {k} |-> v])

\* definition.add
definition_add(cls, type, obj) ==
    [cls EXCEPT !.cache = clone(cls.cache, [x \in {type} |-> obj])]

\* definition.lookup
definition_lookup(cls, type) ==
    IF type \in DOMAIN cls.cache
    THEN [result |-> cls.cache[type], raised |-> "none"]
    ELSE [result |-> <<>>, raised |-> "KeyError"]

\* a get that is a lookup
definition_get_lookup(cls, type, unknownattrs) == definition_lookup(cls, type)

\* definition.get
definition_get(cls, type, unknownattrs) ==
    LET found == definition_lookup(cls, type)
    IN  IF found.raised = "none" THEN found
        ELSE [result |-> clone(cls.unknown, setdefault(unknownattrs, cls.attribute, type)),
              raised |-> "none"]

\* ------------------------------------------------------------ bitmap.py
\* A bitmap is the tuple <<integer, size>>; a negative size is a signed bitmap.
\* Python's &, | and ^ on integers that are not negative:
RECURSIVE BitAnd(_, _)
BitAnd(x, y) ==
    IF x = 0 \/ y = 0 THEN 0
    ELSE (IF x % 2 = 1 /\ y % 2 = 1 THEN 1 ELSE 0) + 2 * BitAnd(x \div 2, y \div 2)

RECURSIVE BitOr(_, _)
BitOr(x, y) ==
    IF x = 0 THEN y ELSE IF y = 0 THEN x
    ELSE (IF x % 2 = 1 \/ y % 2 = 1 THEN 1 ELSE 0) + 2 * BitOr(x \div 2, y \div 2)

RECURSIVE BitXor(_, _)
BitXor(x, y) ==
    IF x = 0 THEN y ELSE IF y = 0 THEN x
    ELSE (IF x % 2 # y % 2 THEN 1 ELSE 0) + 2 * BitXor(x \div 2, y \div 2)

\* x & m for a mask m of the shape 2**n - 1, which is -1 for 0 - 1; x of
\* either sign (Python's integers are two's complement without an end)
Mask(x, m) == IF m = -1 THEN x ELSE x % (m + 1)

\* x & ~m for integers that are not negative
AndNot(x, m) == x - BitAnd(x, m)

abs(x) == IF x < 0 THEN -x ELSE x

\* bitmap.new
bitmap_new(v, sz) == << Mask(v, 2^abs(sz) - 1), sz >>

\* bitmap.size
bitmap_size(bitmap) == abs(bitmap[2])

\* bitmap.value (also int, num, number)
bitmap_value(bitmap) ==
    LET v == bitmap[1]
        sz == bitmap[2]
        signmask == 2^(abs(sz) - 1)
        res == Mask(v, signmask - 1)
    IN  IF sz < 0
        THEN IF BitAnd(v, signmask) # 0 THEN (signmask - res) * (-1)
             ELSE Mask(res, signmask - 1)
        ELSE v

\* an add that returns an unsigned bitmap
bitmap_add_unsigned(bitmap, integer) ==
    << Mask(integer + bitmap[1], 2^abs(bitmap[2]) - 1), abs(bitmap[2]) >>

\* bitmap.add
bitmap_add(bitmap, integer) ==
    << Mask(integer + bitmap[1], 2^abs(bitmap[2]) - 1), bitmap[2] >>

\* bitmap.sub
bitmap_sub(bitmap, integer) ==
    << Mask(bitmap[1] - integer, 2^abs(bitmap[2]) - 1), bitmap[2] >>

\* the sign handling shared by consume and shift: res read with signmask
Signed(res, signmask) ==
    IF BitAnd(res, signmask) # 0 THEN Mask(res, signmask - 1) - signmask
    ELSE Mask(res, signmask - 1)

\* the integer a signed bitmap stands for in mul, div and mod
Number(n, sz) ==
    LET max == 2^abs(sz)
        sf == 2^(abs(sz) - 1)
    IN  IF sz < 0 THEN (IF BitAnd(n, sf) # 0 THEN n - max ELSE Mask(n, sf - 1)) ELSE n

\* the mask of set and get: the bits position .. position+count-1
Range(position, count) == (2^count - 1) * 2^position

\* bitmap.set
bitmap_set(bitmap, position, val, count) ==
    IF count < 0 \/ position < 0 \/ position + count > abs(bitmap[2])
    THEN [raised |-> "AssertionError", bitmap |-> bitmap]
    ELSE [raised |-> "none",
          bitmap |-> IF val THEN << BitOr(bitmap[1], Range(position, count)), abs(bitmap[2]) >>
                     ELSE << AndNot(bitmap[1], Range(position, count)), abs(bitmap[2]) >>]

\* bitmap.get
bitmap_get(bitmap, position, count) ==
    IF count < 0 \/ position < 0 \/ position + count > abs(bitmap[2])
    THEN [raised |-> "AssertionError", bitmap |-> bitmap]
    ELSE [raised |-> "none",
          bitmap |-> << BitAnd(bitmap[1], Range(position, count)) \div 2^position, count >>]

\* a mul that keeps the whole product
bitmap_mul_unmasked(bitmap, integer) ==
    << Number(bitmap[1], bitmap[2]) * integer, bitmap[2] >>

\* bitmap.mul
bitmap_mul(bitmap, integer) ==
    << Mask(Number(bitmap[1], bitmap[2]) * integer, 2^abs(bitmap[2]) - 1), bitmap[2] >>

\* int(float(n)/integer): the quotient rounded towards zero
Truncate(n, d) ==
    IF (n < 0) = (d < 0) THEN abs(n) \div abs(d) ELSE -(abs(n) \div abs(d))

\* Python's n % d, which has the sign of d
Modulo(n, d) == IF d > 0 THEN n % d ELSE -((-n) % (-d))

\* bitmap.div
bitmap_div(bitmap, integer) ==
    IF integer = 0 THEN [raised |-> "ZeroDivisionError", bitmap |-> bitmap]
    ELSE [raised |-> "none",
          bitmap |-> << Mask(Truncate(Number(bitmap[1], bitmap[2]), integer),
                             2^abs(bitmap[2]) - 1), bitmap[2] >>]

\* bitmap.mod
bitmap_mod(bitmap, integer) ==
    IF integer = 0 THEN [raised |-> "ZeroDivisionError", bitmap |-> bitmap]
    ELSE [raised |-> "none",
          bitmap |-> << Mask(Modulo(Number(bitmap[1], bitmap[2]), integer),
                             2^abs(bitmap[2]) - 1), bitmap[2] >>]

\* bitmap.grow and bitmap.shrink; each hands a negative count to the other
bitmap_grow(bitmap, count) ==
    LET sign == IF bitmap[2] < 0 THEN -1 ELSE 1
    IN  IF count < 0
        THEN << bitmap[1] \div 2^(-count), bitmap[2] - ((-count) * sign) >>
        ELSE << bitmap[1] * 2^count, bitmap[2] + (count * sign) >>

bitmap_shrink(bitmap, count) ==
    LET sign == IF bitmap[2] < 0 THEN -1 ELSE 1
    IN  IF count < 0
        THEN << bitmap[1] * 2^(-count), bitmap[2] + ((-count) * sign) >>
        ELSE << bitmap[1] \div 2^count, bitmap[2] - (count * sign) >>

\* a push that puts the operand above the bits of the bitmap
bitmap_push_front(bitmap, operand) ==
    << BitOr(Mask(operand[1], 2^abs(operand[2]) - 1) * 2^abs(bitmap[2]),
             Mask(bitmap[1], 2^abs(bitmap[2]) - 1)),
       IF bitmap[2] < 0 THEN bitmap[2] - abs(operand[2]) ELSE bitmap[2] + abs(operand[2]) >>

\* bitmap.push
bitmap_push(bitmap, operand) ==
    LET rbits == bitmap[2]
        nbits == operand[2]
        res == BitOr(Mask(bitmap[1], 2^abs(rbits) - 1) * 2^abs(nbits),
                     Mask(operand[1], 2^abs(nbits) - 1))
    IN  << res, IF rbits < 0 THEN rbits - abs(nbits) ELSE rbits + abs(nbits) >>

\* bitmap.insert: 2**nbits is a float for a negative nbits and `&` raises
\* TypeError; `<<` by a negative rbits raises ValueError
bitmap_insert(bitmap, operand) ==
    LET rbits == bitmap[2]
        nbits == operand[2]
    IN  IF nbits < 0 THEN [raised |-> "TypeError", bitmap |-> bitmap]
        ELSE IF rbits < 0 THEN [raised |-> "ValueError", bitmap |-> bitmap]
        ELSE [raised |-> "none",
              bitmap |-> << BitOr(Mask(operand[1], 2^nbits - 1) * 2^rbits,
                                  Mask(bitmap[1], 2^rbits - 1)),
                            nbits + rbits >>]

\* bitmap.consume
bitmap_consume(bitmap, bits) ==
    LET integermask == 2^bits
        integersize == IF bits > abs(bitmap[2]) THEN abs(bitmap[2]) ELSE bits
        res == Mask(bitmap[1], integermask - 1)
    IN  IF bits < 0 THEN [raised |-> "AssertionError", bitmap |-> bitmap, value |-> 0]
        ELSE IF bitmap[2] < 0
        THEN [raised |-> "none",
              bitmap |-> << bitmap[1] \div 2^integersize, bitmap[2] + integersize >>,
              value |-> Signed(res, integermask \div 2)]
        ELSE [raised |-> "none",
              bitmap |-> << bitmap[1] \div 2^integersize, bitmap[2] - integersize >>,
              value |-> res]

\* bitmap.shift
bitmap_shift(bitmap, bits) ==
    LET integermask == 2^bits
        clamped == IF bits > abs(bitmap[2]) THEN abs(bitmap[2]) ELSE bits
        shifty == abs(bitmap[2]) - clamped
        mask == (integermask - 1) * 2^shifty
        res == BitAnd(bitmap[1], mask) \div 2^shifty
    IN  IF bits < 0 THEN [raised |-> "AssertionError", bitmap |-> bitmap, value |-> 0]
        ELSE IF bitmap[2] < 0
        THEN [raised |-> "none",
              bitmap |-> << AndNot(bitmap[1], mask), -shifty >>,
              value |-> Signed(res, integermask \div 2)]
        ELSE [raised |-> "none",
              bitmap |-> << AndNot(bitmap[1], mask), shifty >>,
              value |-> res]

\* bitmap.rol: 2**b and 2**(b-shift) are floats for negative exponents and
\* `^` raises TypeError
bitmap_rol(bitmap, shift) ==
    LET v == bitmap[1]
        b == bitmap[2]
    IN  IF shift < 0 THEN [raised |-> "ValueError", bitmap |-> bitmap]
        ELSE IF b < 0 \/ b - shift < 0 THEN [raised |-> "TypeError", bitmap |-> bitmap]
        ELSE [raised |-> "none",
              bitmap |-> << Mask(BitOr(v * 2^shift,
                                       BitAnd(v, BitXor(2^b - 1, 2^(b - shift) - 1))
                                           \div 2^(b - shift)),
                                 2^b - 1), b >>]

\* bitmap.ror: `<<` by a negative b-shift raises ValueError
bitmap_ror(bitmap, shift) ==
    LET v == bitmap[1]
        b == bitmap[2]
    IN  IF shift < 0 THEN [raised |-> "TypeError", bitmap |-> bitmap]
        ELSE IF b - shift < 0 THEN [raised |-> "ValueError", bitmap |-> bitmap]
        ELSE [raised |-> "none",
              bitmap |-> << Mask(BitOr(Mask(v, 2^shift - 1) * 2^(b - shift),
                                       v \div 2^shift),
                                 2^b - 1), b >>]

\* bitmap.split of an unsigned bitmap into unsigned bitmaps of maxsize bits,
\* the highest bits first
RECURSIVE bitmap_split(_, _)
bitmap_split(bitmap, maxsize) ==
    IF bitmap[2] < maxsize
    THEN IF bitmap[2] > 0 THEN << bitmap >> ELSE <<>>
    ELSE LET res == bitmap_consume(bitmap, maxsize)
         IN  Append(bitmap_split(res.bitmap, maxsize), << res.value, maxsize >>)

\* the loop of bitmap.scan: at most size rounds, each testing one bit
RECURSIVE scan_loop(_, _, _, _, _)
scan_loop(integer, sz, val, position, i) ==
    IF i >= sz THEN position
    ELSE IF ((BitAnd(integer, 2^position) # 0) = val) \/ position >= sz THEN position
    ELSE scan_loop(integer, sz, val, position + 1, i + 1)

\* bitmap.scan
bitmap_scan(bitmap, val, position) ==
    IF position < 0 \/ position > abs(bitmap[2])
    THEN [raised |-> "AssertionError", value |-> 0]
    ELSE [raised |-> "none",
          value |-> scan_loop(bitmap[1], abs(bitmap[2]), val, position, 0)]

\* a runlength that scans for the value itself
bitmap_runlength_same(bitmap, val, position) ==
    IF position < 0 \/ position > abs(bitmap[2])
    THEN [raised |-> "AssertionError", value |-> 0]
    ELSE [raised |-> "none", value |-> bitmap_scan(bitmap, val, position).value - position]

\* bitmap.runlength
bitmap_runlength(bitmap, val, position) ==
    IF position < 0 \/ position > abs(bitmap[2])
    THEN [raised |-> "AssertionError", value |-> 0]
    ELSE [raised |-> "none", value |-> bitmap_scan(bitmap, ~val, position).value - position]

\* one round of the loop of bitmap.run, from the generator's locals
\* (size, position, value) to the bitmap it yields and the locals after it
run_iteration(bitmap, locals) ==
    LET length == bitmap_runlength(<< bitmap[1], locals.size >>, locals.value, locals.position)
        got == bitmap_get(bitmap, locals.position, length.value)
    IN  IF length.raised # "none" THEN [raised |-> length.raised, yield |-> <<>>, locals |-> locals]
        ELSE IF got.raised # "none" THEN [raised |-> got.raised, yield |-> <<>>, locals |-> locals]
        ELSE [raised |-> "none", yield |-> << got.bitmap >>,
              locals |-> [size |-> locals.size - length.value,
                          position |-> locals.position + length.value,
                          value |-> ~locals.value]]

\* -------------------------------------------------------- dynamic.align

\* blocksize of the block dynamic.align(alignment) returns, for an instance that is
\* element idx of a parent at parentOffset whose elements have the blocksizes
\* sizes (hasParent: parent is not None and self in parent.value). Python's
\* (-offset) & (size-1) takes -offset in two's complement; alignment is its
\* size.
align_blocksize(alignment, hasParent, parentOffset, sizes, idx) ==
    IF ~hasParent THEN 0
    ELSE LET ofs == parentOffset + SumSeq(SubSeq(sizes, 1, idx - 1))
         IN  BitAnd((-ofs) % 2^alignment, alignment - 1)

\* ------------------------------------------------------ macheap.ptr_union

\* the size of the pointer in bytes (object.size(), 8 in a 64-bit process)
PtrSize == 2
PtrBits == PtrSize * 8

\* reduce(bitmap.add, integers, bitmap)
RECURSIVE reduce_add(_, _)
reduce_add(integers, bitmap) ==
    IF integers = <<>> THEN bitmap
    ELSE reduce_add(Tail(integers), bitmap_add(bitmap, Head(integers)))

\* a checksum that is the same for every pointer
generate_checksum_zero(ptr) == 0

\* ptr_union.generate_checksum
generate_checksum(ptr) ==
    LET pu == bitmap_new(ptr, PtrBits)
        split == bitmap_split(pu, 8)
        res == reduce_add([i \in 1..Len(split) |-> bitmap_value(split[i])], bitmap_new(0, 8))
    IN  BitAnd(bitmap_value(res), 15)

\* ptr_union.decode; pointer_t.decode casts the result and keeps its integer
ptr_union_decode(pu, cookie) ==
    LET rolled == bitmap_rol(bitmap_new(pu, PtrBits), 4)
        ptr == AndNot(bitmap_value(rolled.bitmap), 15)
        cs == BitXor(ptr, cookie)
    IN  [raised |-> rolled.raised,
         logged |-> IF BitAnd(bitmap_value(rolled.bitmap), 15) # generate_checksum(cs)
                    THEN "warn" ELSE "none",
         result |-> ptr]

\* ptr_union.encode; pointer_t.encode casts the result and keeps its integer
ptr_union_encode(pu, cookie) ==
    LET csum == generate_checksum(BitXor(pu, cookie))
        rolled == bitmap_rol(bitmap_new(pu, PtrBits), 4)
        cs == bitmap_ror(bitmap_new(BitOr(bitmap_value(rolled.bitmap), csum),
                                    bitmap_size(rolled.bitmap)), 4)
    IN  [raised |-> IF rolled.raised # "none" THEN rolled.raised ELSE cs.raised,
         logged |-> "info",
         result |-> bitmap_value(cs.bitmap)]

\* ------------------------------------------------------------------- state
VARIABLES
    pkind,      \* the provider's class: "string", "proxy" or "lldb"
    data,       \* string.data; the proxied type's serialization; the process memory
    offset,     \* string.offset, proxy.offset, lldb.address
    ret         \* what the last provider call returned or raised

VARIABLES
    kind,       \* the instance's class: "pstruct" (pstruct.type) or "container"
    _fields_,   \* the lengths of the types of pstruct.type._fields_, in order
    position,   \* the instance's offset
    allocated,  \* whether the instance's value is a list (not None)
    value,      \* the instance's value: its children
    custombs,   \* the blocksize() a subclass overrides with, -1 without one
    op,         \* the method called last: "init", "load", "commit", "element"
    raised,     \* the exception that call raised to its caller, or "none"
    logged,     \* the exception that call caught and logged, or "none"
    failed      \* whether a store of the provider failed during that call

VARIABLES
    src,        \* the instance cast() is called on
    t,          \* the type it is cast to
    result      \* the instance cast() returned

VARIABLES
    attrs,      \* the array's _object_ (the length of its element type) and length
    inserted    \* the last insert: its index, its object and the elements before it

VARIABLES
    root,       \* union.root: the length of the root type, NoRoot when not given
    views,      \* union.object: the instances of the fields of the union
    written     \* the fields set, committed and read last, and the bytes committed

VARIABLES
    input,      \* the arguments of the last call of a function
    output,     \* what that call returned
    definition  \* a ptype.definition: its cache, unknown and attribute

provVars == <<pkind, data, offset, ret>>
contVars == <<kind, _fields_, position, allocated, value, custombs, op, raised,
              logged, failed>>
castVars == <<src, t, result>>
arrVars == <<attrs, inserted>>
unionVars == <<root, views, written>>
pureVars == <<input, output, definition>>
vars == <<provVars, contVars, castVars, arrVars, unionVars, pureVars>>

source == [kind |-> pkind, data |-> data, offset |-> offset]

\* -------------------------------------------------------- providers (SpecProv)
NoRet == [op |-> "none", amount |-> 0, status |-> "ok", bytes |-> <<>>, prev |-> 0]

NoInstance ==
    /\ kind = "container" /\ _fields_ = <<>> /\ position = 0
    /\ allocated = FALSE /\ value = <<>> /\ custombs = -1
    /\ op = "init" /\ raised = "none" /\ logged = "none" /\ failed = FALSE

NoProvider == pkind = "string" /\ data = <<>> /\ offset = NoOffset /\ ret = NoRet

NoType == [iscontainer |-> FALSE, length |-> 0, _object_ |-> 0]
NoObject == [iscontainer |-> FALSE, offset |-> 0, value |-> << new(0, 0) >>]
NoCast == src = NoObject /\ t = NoType /\ result = NoObject

NoInsert == [index |-> 0, object |-> new(0, 0), before |-> <<>>]
NoArray == attrs = [_object_ |-> 0, length |-> NoLength] /\ inserted = NoInsert

NoWrite == [name |-> 0, bytes |-> <<>>, read |-> 0, set |-> 0]
NoUnion == root = NoRoot /\ views = <<>> /\ written = NoWrite
NoDefinition == [cache |-> <<>>, unknown |-> <<>>, attribute |-> "type"]
NoCall == input = <<>> /\ output = <<>> /\ definition = NoDefinition

ProvInit ==
    /\ pkind \in {"string", "proxy", "lldb"}
    /\ data \in SeqsUpTo(0..1, MaxData)
    /\ offset = IF pkind = "string" THEN NoOffset ELSE 0
    /\ ret = NoRet
    /\ NoInstance
    /\ NoCast
    /\ NoArray
    /\ NoUnion
    /\ NoCall

seek ==
    \E o \in 0..MaxOffset + MaxAmount :
        LET r == ProviderSeek(offset, o)
        IN  /\ offset' = r.offset
            /\ ret' = [op |-> "seek", amount |-> o, status |-> "ok",
                       bytes |-> <<>>, prev |-> r.result]
            /\ UNCHANGED <<pkind, data, contVars, castVars, arrVars, unionVars, pureVars>>

consume ==
    \E amount \in 0..MaxAmount :
        LET r == Consume(pkind, data, offset, amount)
        IN  /\ offset' = r.offset
            /\ ret' = [op |-> "consume", amount |-> amount, status |-> r.status,
                       bytes |-> r.bytes, prev |-> offset]
            /\ UNCHANGED <<pkind, data, contVars, castVars, arrVars, unionVars, pureVars>>

store ==
    /\ pkind # "proxy"
    /\ \E bytes \in SeqsUpTo(0..1, MaxAmount) :
        LET r == Store(pkind, data, offset, bytes)
        IN  /\ Len(r.data) <= MaxData
            /\ data' = r.data
            /\ offset' = r.offset
            /\ ret' = [op |-> "store", amount |-> Len(bytes), status |-> r.status,
                       bytes |-> bytes, prev |-> offset]
            /\ UNCHANGED <<pkind, contVars, castVars, arrVars, unionVars, pureVars>>

ProvNext == seek \/ consume \/ store

SpecProv == ProvInit /\ [][ProvNext]_vars

\* ------------------------------------- structures and containers (SpecCont)

\* the children a container holds before it is loaded again: every one
\* initialized with OldByte, at contiguous offsets
OldChildren(lengths, ofs) ==
    [i \in 1..Len(lengths) |->
        [offset |-> ofs + SumSeq(SubSeq(lengths, 1, i - 1)),
         length |-> lengths[i],
         value |-> [j \in 1..lengths[i] |-> OldByte]]]

ContInit ==
    /\ pkind \in {"string", "lldb"}
    /\ data \in {Letters(n) : n \in 0..MaxData}
    /\ offset = IF pkind = "string" THEN NoOffset ELSE 0
    /\ ret = NoRet
    /\ kind \in {"pstruct", "container"}
    /\ _fields_ \in UNION {[1..k -> 0..MaxLen] : k \in 1..MaxFields}
    /\ position \in 0..MaxOffset
    /\ allocated = (kind = "container")
    /\ value = IF kind = "container" THEN OldChildren(_fields_, position) ELSE <<>>
    /\ IF kind = "container" THEN custombs \in -1..SumSeq(_fields_) + 1
       ELSE custombs = -1
    /\ op = "init" /\ raised = "none" /\ logged = "none" /\ failed = FALSE
    /\ NoCast
    /\ NoArray
    /\ NoUnion
    /\ NoCall

\* instance.load()
Load ==
    /\ op = "init"
    /\ LET res == IF kind = "pstruct"
                  THEN pstruct_load(_fields_, position, custombs, source)
                  ELSE container_load(value, position, custombs, source)
       IN  /\ value' = res.value
           /\ allocated' = TRUE
           /\ offset' = res.offset
           /\ raised' = res.raised
           /\ logged' = res.logged
    /\ op' = "load"
    /\ UNCHANGED <<pkind, data, ret, kind, _fields_, position, custombs, failed,
                   castVars, arrVars, unionVars, pureVars>>

\* instance.commit()
Commit ==
    /\ op \in {"init", "load"}
    /\ allocated
    /\ LET res == container_commit(value, position, custombs, source)
       IN  /\ data' = res.data
           /\ offset' = res.offset
           /\ raised' = res.raised
           /\ logged' = res.logged
           /\ failed' = res.failed
    /\ op' = "commit"
    /\ UNCHANGED <<pkind, ret, kind, _fields_, position, allocated, value, custombs,
                   castVars, arrVars, unionVars, pureVars>>

\* instance.value[i].commit(): base.commit of an atomic instance
CommitElement ==
    /\ op \in {"init", "load"}
    /\ allocated
    /\ \E i \in 1..Len(value) :
        LET res == base_commit(value[i].offset,
                       type_serialize(value[i], TRUE,
                           container_blocksize(value, custombs), position),
                       source)
        IN  /\ data' = res.data
            /\ offset' = res.offset
            /\ raised' = res.raised
            /\ failed' = (res.raised = "CommitError")
    /\ op' = "element"
    /\ logged' = "none"
    /\ UNCHANGED <<pkind, ret, kind, _fields_, position, allocated, value, custombs,
                   castVars, arrVars, unionVars, pureVars>>

ContNext == Load \/ Commit \/ CommitElement

SpecCont == ContInit /\ [][ContNext]_vars

\* --------------------------------------------------------- cast (SpecCast)

\* an atomic instance of the given length at ofs holding the first held
\* bytes of "ABC...", or nothing at all (held = -1)
Loaded(length, ofs, held) ==
    [offset |-> ofs, length |-> length,
     value |-> IF held = -1 THEN None ELSE Letters(held)]

\* the instances a load leaves behind: an atomic instance, loaded, cut short or
\* never loaded, and an array of one-byte elements of which a prefix is loaded
Sources ==
    {[iscontainer |-> FALSE, offset |-> ofs, value |-> << Loaded(length, ofs, held) >>] :
        length \in 0..MaxCast, ofs \in 0..1, held \in -1..MaxCast}
    \cup
    {[iscontainer |-> TRUE, offset |-> 0,
      value |-> [i \in 1..length |->
                    [offset |-> i - 1, length |-> 1,
                     value |-> IF i <= held THEN << i >> ELSE None]]] :
        length \in 1..MaxCast, held \in 0..MaxCast}

Types ==
    {[iscontainer |-> FALSE, length |-> length, _object_ |-> 0] : length \in 0..MaxCast + 1}
    \cup
    {[iscontainer |-> TRUE, length |-> length, _object_ |-> o] :
        length \in 0..MaxCast, o \in 1..2}

CastInit ==
    /\ NoProvider
    /\ NoInstance
    /\ NoArray
    /\ NoUnion
    /\ NoCall
    /\ src \in {x \in Sources : x.iscontainer \/ x.value[1].value = None
                                \/ Len(x.value[1].value) <= x.value[1].length}
    /\ t = NoType
    /\ result = NoObject

\* src.cast(t)
Cast ==
    /\ op = "init"
    /\ \E type \in Types :
        LET res == cast(src, type)
        IN  /\ t' = type
            /\ result' = res.result
            /\ raised' = res.raised
    /\ op' = "cast"
    /\ UNCHANGED <<provVars, kind, _fields_, position, allocated, value, custombs,
                   logged, failed, src, arrVars, unionVars, pureVars>>

CastNext == Cast

SpecCast == CastInit /\ [][CastNext]_vars

\* ------------------------------------------------------- arrays (SpecArray)

\* the objects handed to insert: elements never loaded and elements that hold
\* their bytes
Objects ==
    {new(length, 0) : length \in 1..MaxLen}
    \cup {[offset |-> 0, length |-> length, value |-> [i \in 1..length |-> OldByte]] :
            length \in 1..MaxLen}

ArrayInit ==
    /\ pkind \in {"string", "lldb"}
    /\ data \in {Letters(n) : n \in 0..MaxData}
    /\ offset = IF pkind = "string" THEN NoOffset ELSE 0
    /\ ret = NoRet
    /\ kind = "parray"
    /\ _fields_ = <<>>
    /\ position \in 0..MaxOffset
    /\ allocated = FALSE /\ value = <<>> /\ custombs = -1
    /\ op = "init" /\ raised = "none" /\ logged = "none" /\ failed = FALSE
    /\ NoCast
    /\ attrs \in [_object_ : 1..MaxLen, length : 0..MaxFields]
    /\ inserted = NoInsert
    /\ NoUnion
    /\ NoCall

\* array.load()
ArrayLoad ==
    /\ op = "init"
    /\ LET res == parray_load(attrs.length, attrs._object_, position, source)
       IN  /\ value' = res.value
           /\ allocated' = TRUE
           /\ offset' = res.offset
           /\ raised' = res.raised
           /\ logged' = res.logged
    /\ op' = "load"
    /\ UNCHANGED <<pkind, data, ret, kind, _fields_, position, custombs, failed,
                   castVars, arrVars, unionVars, pureVars>>

\* array.insert(index, object)
Insert ==
    /\ op \in {"load", "insert"}
    /\ allocated
    /\ Len(value) < MaxFields
    /\ \E index \in -Len(value)..Len(value), object \in Objects :
        LET res == parray_insert(value, index, object)
        IN  /\ value' = res.value
            /\ raised' = res.raised
            /\ inserted' = [index |-> index, object |-> object, before |-> value]
    /\ op' = "insert"
    /\ UNCHANGED <<provVars, kind, _fields_, position, allocated, custombs, logged,
                   failed, castVars, attrs, unionVars, pureVars>>

ArrayNext == ArrayLoad \/ Insert

SpecArray == ArrayInit /\ [][ArrayNext]_vars

\* -------------------------------------------- terminated (SpecTerminated)

TerminatedInit ==
    /\ pkind \in {"string", "lldb"}
    /\ data \in SeqsUpTo(0..1, MaxData + 3)
    /\ offset = IF pkind = "string" THEN NoOffset ELSE 0
    /\ ret = NoRet
    /\ kind = "terminated"
    /\ _fields_ = <<>>
    /\ position \in 0..MaxOffset
    /\ allocated = FALSE /\ value = <<>> /\ custombs = -1
    /\ op = "init" /\ raised = "none" /\ logged = "none" /\ failed = FALSE
    /\ NoCast
    /\ attrs \in [_object_ : 1..MaxLen, length : {NoLength} \cup 0..MaxFields]
    /\ inserted = NoInsert
    /\ NoUnion
    /\ NoCall

\* array.load() of a terminated array
TerminatedLoad ==
    /\ op = "init"
    /\ LET res == terminated_load(attrs.length, attrs._object_, position, source)
       IN  /\ value' = res.value
           /\ allocated' = TRUE
           /\ offset' = res.offset
           /\ raised' = res.raised
    /\ op' = "load"
    /\ UNCHANGED <<pkind, data, ret, kind, _fields_, position, custombs, logged,
                   failed, castVars, arrVars, unionVars, pureVars>>

TerminatedNext == TerminatedLoad

SpecTerminated == TerminatedInit /\ [][TerminatedNext]_vars

\* ------------------------------------------------------ block (SpecBlock)

BlockInit ==
    /\ pkind \in {"string", "lldb"}
    /\ data \in {Letters(n) : n \in 0..MaxData + 2}
    /\ offset = IF pkind = "string" THEN NoOffset ELSE 0
    /\ ret = NoRet
    /\ kind = "block"
    /\ _fields_ = <<>>
    /\ position \in 0..MaxOffset
    /\ allocated = FALSE /\ value = <<>>
    /\ custombs \in 0..MaxData + 1
    /\ op = "init" /\ raised = "none" /\ logged = "none" /\ failed = FALSE
    /\ NoCast
    /\ attrs \in [_object_ : 1..MaxLen, length : {NoLength} \cup 0..MaxFields]
    /\ inserted = NoInsert
    /\ NoUnion
    /\ NoCall

\* array.load() of a block array whose blocksize() is custombs
BlockLoad ==
    /\ op = "init"
    /\ LET res == block_load(attrs.length, attrs._object_, custombs, position, source)
       IN  /\ value' = res.value
           /\ allocated' = TRUE
           /\ offset' = res.offset
           /\ raised' = res.raised
    /\ op' = "load"
    /\ UNCHANGED <<pkind, data, ret, kind, _fields_, position, custombs, logged,
                   failed, castVars, arrVars, unionVars, pureVars>>

BlockNext == BlockLoad

SpecBlock == BlockInit /\ [][BlockNext]_vars

\* -------------------------------------------------------- union (SpecUnion)

UnionInit ==
    /\ pkind = "string"
    /\ data \in {Letters(n) : n \in 0..MaxData}
    /\ offset = IF pkind = "string" THEN NoOffset ELSE 0
    /\ ret = NoRet
    /\ kind = "union"
    /\ _fields_ \in UNION {[1..n -> 1..MaxLen] : n \in 1..MaxFields - 1}
    /\ position \in 0..1
    /\ allocated = FALSE /\ value = <<>> /\ custombs = -1
    /\ op = "init" /\ raised = "none" /\ logged = "none" /\ failed = FALSE
    /\ NoCast
    /\ NoArray
    /\ NoCall
    /\ root \in {NoRoot} \cup 1..MaxLen + 1
    /\ views = <<>>
    /\ written = NoWrite

\* u.load()
UnionLoad ==
    /\ op = "init"
    /\ LET res == union_load(root, _fields_, position, source)
       IN  /\ value' = << res.value >>
           /\ views' = res.views
           /\ raised' = res.raised
           /\ offset' = res.offset
    /\ allocated' = TRUE
    /\ op' = "load"
    /\ UNCHANGED <<pkind, data, ret, kind, _fields_, position, custombs, logged,
                   failed, castVars, arrVars, root, written, pureVars>>

\* u.alloc()
UnionAlloc ==
    /\ op = "init"
    /\ LET res == union_alloc(root, _fields_, position)
       IN  /\ value' = << res.value >>
           /\ views' = res.views
    /\ allocated' = TRUE
    /\ raised' = "none"
    /\ op' = "alloc"
    /\ UNCHANGED <<provVars, kind, _fields_, position, custombs, logged, failed,
                   castVars, arrVars, root, written, pureVars>>

\* u[name]: once before the fields are written to, and at will after a commit
GetItem ==
    /\ allocated
    /\ op \in {"load", "alloc"} \/ written.name # 0
    /\ \E name \in 1..Len(views) :
        LET res == union_getitem(value[1], views, name)
        IN  /\ views' = res.views
            /\ raised' = res.raised
            /\ written' = [written EXCEPT !.read = name]
    /\ op' = "getitem"
    /\ UNCHANGED <<provVars, kind, _fields_, position, allocated, value, custombs,
                   logged, failed, castVars, arrVars, root, pureVars>>

\* u[name].set(bytes): once, before the commit
SetItem ==
    /\ allocated
    /\ op \in {"load", "alloc", "getitem"}
    /\ written.name = 0
    /\ \E name \in 1..Len(views), bytes \in {[i \in 1..n |-> OldByte] : n \in 1..MaxLen} :
        LET res == union_getitem(value[1], views, name)
        IN  /\ views' = IF res.raised = "none"
                        THEN [res.views EXCEPT ![name] = type_setvalue(@, bytes)]
                        ELSE res.views
            /\ raised' = res.raised
            /\ written' = [NoWrite EXCEPT !.set = IF res.raised = "none" THEN name ELSE 0]
    /\ op' = "set"
    /\ UNCHANGED <<provVars, kind, _fields_, position, allocated, value, custombs,
                   logged, failed, castVars, arrVars, root, pureVars>>

\* u[name].commit(): once
CommitItem ==
    /\ allocated
    /\ op \in {"load", "alloc", "getitem", "set"}
    /\ written.name = 0
    /\ \E name \in 1..Len(views) :
        LET got == union_getitem(value[1], views, name)
            res == view_commit(value[1], got.views[name])
        IN  /\ views' = got.views
            /\ IF got.raised = "none"
               THEN /\ value' = << res.value >>
                    /\ raised' = res.raised
                    /\ written' = IF res.raised = "none"
                                  THEN [name |-> name, bytes |-> got.views[name].value,
                                        read |-> 0, set |-> written.set]
                                  ELSE NoWrite
               ELSE /\ raised' = got.raised
                    /\ written' = NoWrite
                    /\ UNCHANGED value
    /\ op' = "commit"
    /\ UNCHANGED <<provVars, kind, _fields_, position, allocated, custombs, logged,
                   failed, castVars, arrVars, root, pureVars>>

UnionNext == UnionLoad \/ UnionAlloc \/ GetItem \/ SetItem \/ CommitItem

SpecUnion == UnionInit /\ [][UnionNext]_vars

\* ------------------------------------------- definition (SpecDefinition)

\* the class of ptype.block and of the types a module defines
BlockClass == 0
Defined ==
    {[x \in {"class", "length"} |-> IF x = "class" THEN c ELSE l] : c \in 1..2, l \in 0..1}

\* the attributes a caller gives to get, as in get(id, length=thelength)
UnknownAttrs == {<<>>} \cup {[x \in {"length"} |-> l] : l \in 0..MaxLen}

\* class zone_type(ptype.definition): attribute, cache = 'version', {}
DefinitionInit ==
    /\ NoProvider
    /\ NoInstance
    /\ NoCast
    /\ NoArray
    /\ NoUnion
    /\ input = <<>> /\ output = <<>>
    /\ definition \in [cache : {<<>>},
                       unknown : {[x \in {"class", "length"} |-> IF x = "class" THEN BlockClass ELSE 0]},
                       attribute : {"type", "version"}]

\* definition.add(type, object)
DefinitionAdd ==
    /\ \E type \in 0..MaxKey, obj \in Defined :
        /\ definition' = definition_add(definition, type, obj)
        /\ input' = << type >>
    /\ output' = <<>>
    /\ op' = "add"
    /\ raised' = "none"
    /\ UNCHANGED <<provVars, kind, _fields_, position, allocated, value, custombs,
                   logged, failed, castVars, arrVars, unionVars>>

\* definition.get(type, **unknownattrs)
DefinitionGet ==
    /\ \E type \in 0..MaxKey, unknownattrs \in UnknownAttrs :
        LET res == definition_get(definition, type, unknownattrs)
        IN  /\ output' = res.result
            /\ raised' = res.raised
            /\ input' = << type, unknownattrs >>
    /\ op' = "get"
    /\ UNCHANGED <<provVars, kind, _fields_, position, allocated, value, custombs,
                   logged, failed, castVars, arrVars, unionVars, definition>>

DefinitionNext == DefinitionAdd \/ DefinitionGet

SpecDefinition == DefinitionInit /\ [][DefinitionNext]_vars

\* ------------------------------------------------ ptr_union (SpecPtr)

\* the hexadecimal digits the pointers and the words in memory are made of
Nibbles == {0, 1, 8, 15}

RECURSIVE Digits(_)
Digits(seq) == IF seq = <<>> THEN 0 ELSE Head(seq) + 16 * Digits(Tail(seq))

Words == {Digits(seq) : seq \in [1..2 * PtrSize -> Nibbles]}

\* szone['cookie']
Cookies == {0, 171, 42435}

\* input is the integer the ptr_union holds (object.get()), with the zone's
\* cookie, the pointer it was encoded from and the bit that was flipped since
PtrInit ==
    /\ NoProvider
    /\ kind = "container" /\ _fields_ = <<>> /\ position = 0
    /\ allocated = FALSE /\ value = <<>> /\ custombs = -1
    /\ op = "init" /\ raised = "none" /\ logged = "none" /\ failed = FALSE
    /\ NoCast
    /\ NoArray
    /\ NoUnion
    /\ input \in [cookie : Cookies, word : Words, pointer : {<<>>}, flipped : {<<>>}]
    /\ output = <<>>
    /\ definition = NoDefinition

\* ptr_union.encode of the pointer the object holds
Encode ==
    /\ op = "init"
    /\ LET res == ptr_union_encode(input.word, input.cookie)
       IN  /\ input' = [input EXCEPT !.word = res.result, !.pointer = << input.word >>]
           /\ raised' = res.raised
           /\ logged' = res.logged
    /\ op' = "encode"
    /\ UNCHANGED <<provVars, kind, _fields_, position, allocated, value, custombs,
                   failed, castVars, arrVars, unionVars, output, definition>>

\* ptr_union.decode of the word the object holds
Decode ==
    /\ op \in {"init", "encode", "flip"}
    /\ LET res == ptr_union_decode(input.word, input.cookie)
       IN  /\ output' = << res.result >>
           /\ raised' = res.raised
           /\ logged' = res.logged
    /\ op' = "decode"
    /\ UNCHANGED <<provVars, kind, _fields_, position, allocated, value, custombs,
                   failed, castVars, arrVars, unionVars, input, definition>>

\* the word with bit k inverted
Flip(word, k) == BitXor(word, 2^k)

\* one bit of a word whose checksum decode found matching is inverted in memory
Corrupt ==
    /\ op = "decode" /\ logged = "none" /\ input.flipped = <<>>
    /\ \E k \in 0..PtrBits - 1 :
        input' = [input EXCEPT !.word = Flip(input.word, k), !.flipped = << k >>]
    /\ op' = "flip"
    /\ UNCHANGED <<provVars, kind, _fields_, position, allocated, value, custombs,
                   raised, logged, failed, castVars, arrVars, unionVars, output,
                   definition>>

PtrNext == Encode \/ Decode \/ Corrupt

SpecPtr == PtrInit /\ [][PtrNext]_vars

\* ------------------------------------------------- bitmaps (SpecBitmap)

\* the bitmaps (integer, size) of at most n bits, signed (size < 0) or not
Bitmaps(n) == {<< v, sz >> : v \in 0..2^n - 1, sz \in -n..n} \cap
              {bitmap \in (0..2^n - 1) \X (-n..n) : bitmap[1] < 2^abs(bitmap[2])}

Call(name, bitmap, args) == [op |-> name, bitmap |-> bitmap, args |-> args]

\* output holds the bitmap at hand and the integer the last call extracted;
\* input lists the calls made, each with the bitmap it was given
BitmapInit ==
    /\ NoProvider
    /\ NoInstance
    /\ NoCast
    /\ NoArray
    /\ NoUnion
    /\ input = <<>>
    /\ output \in [bitmap : Bitmaps(MaxBits), value : {<<>>}]
    /\ definition = NoDefinition

\* a call that returned the bitmap res.bitmap or raised res.raised
Returned(name, args, res) ==
    /\ input' = Append(input, Call(name, output.bitmap, args))
    /\ raised' = res.raised
    /\ output' = IF res.raised = "none" THEN [bitmap |-> res.bitmap, value |-> <<>>]
                 ELSE output
    /\ op' = name
    /\ UNCHANGED <<provVars, kind, _fields_, position, allocated, value, custombs,
                   logged, failed, castVars, arrVars, unionVars, definition>>

\* a call that returned a bitmap and an integer, or raised
Extracted(name, args, res) ==
    /\ input' = Append(input, Call(name, output.bitmap, args))
    /\ raised' = res.raised
    /\ output' = IF res.raised = "none" THEN [bitmap |-> res.bitmap, value |-> << res.value >>]
                 ELSE output
    /\ op' = name
    /\ UNCHANGED <<provVars, kind, _fields_, position, allocated, value, custombs,
                   logged, failed, castVars, arrVars, unionVars, definition>>

Ok(bitmap) == [raised |-> "none", bitmap |-> bitmap]

BitmapNew ==
    /\ op = "init"
    /\ \E v \in -(2^MaxBits)..2^(MaxBits + 1), sz \in -MaxBits..MaxBits :
        Returned("new", << v, sz >>, Ok(bitmap_new(v, sz)))

BitmapSet ==
    /\ op = "init"
    /\ \E pos \in -1..MaxBits, val \in BOOLEAN, count \in -1..MaxBits :
        Returned("set", << pos, val, count >>, bitmap_set(output.bitmap, pos, val, count))

BitmapGet ==
    /\ op = "init"
    /\ \E pos \in -1..MaxBits, count \in -1..MaxBits :
        Returned("get", << pos, count >>, bitmap_get(output.bitmap, pos, count))

BitmapAdd ==
    /\ op = "init"
    /\ \E integer \in -MaxInteger..MaxInteger :
        Returned("add", << integer >>, Ok(bitmap_add(output.bitmap, integer)))

BitmapSub ==
    /\ op = "init"
    /\ \E integer \in -MaxInteger..MaxInteger :
        Returned("sub", << integer >>, Ok(bitmap_sub(output.bitmap, integer)))

BitmapMul ==
    /\ op = "init"
    /\ \E integer \in -MaxInteger..MaxInteger :
        Returned("mul", << integer >>, Ok(bitmap_mul(output.bitmap, integer)))

BitmapDiv ==
    /\ op = "init"
    /\ \E integer \in -MaxInteger..MaxInteger :
        Returned("div", << integer >>, bitmap_div(output.bitmap, integer))

BitmapMod ==
    /\ op = "init"
    /\ \E integer \in -MaxInteger..MaxInteger :
        Returned("mod", << integer >>, bitmap_mod(output.bitmap, integer))

BitmapGrow ==
    /\ op = "init"
    /\ \E count \in -MaxBits..MaxBits :
        Returned("grow", << count >>, Ok(bitmap_grow(output.bitmap, count)))

BitmapShrink ==
    /\ op = "init"
    /\ \E count \in -MaxBits..MaxBits :
        Returned("shrink", << count >>, Ok(bitmap_shrink(output.bitmap, count)))

BitmapPush ==
    /\ op = "init"
    /\ \E operand \in Bitmaps(MaxBits) :
        Returned("push", << operand >>, Ok(bitmap_push(output.bitmap, operand)))

BitmapInsert ==
    /\ op = "init"
    /\ \E operand \in Bitmaps(MaxBits) :
        Returned("insert", << operand >>, bitmap_insert(output.bitmap, operand))

BitmapConsume ==
    /\ op \in {"init", "push"}
    /\ \E bits \in -1..2 * MaxBits + 1 :
        Extracted("consume", << bits >>, bitmap_consume(output.bitmap, bits))

BitmapShift ==
    /\ op \in {"init", "insert"} /\ raised = "none"
    /\ \E bits \in -1..2 * MaxBits + 1 :
        Extracted("shift", << bits >>, bitmap_shift(output.bitmap, bits))

BitmapRol ==
    /\ op = "init"
    /\ \E shift \in -1..MaxBits + 1 :
        Returned("rol", << shift >>, bitmap_rol(output.bitmap, shift))

BitmapRor ==
    /\ op = "init"
    /\ \E shift \in -1..MaxBits + 1 :
        Returned("ror", << shift >>, bitmap_ror(output.bitmap, shift))

BitmapNext ==
    \/ BitmapNew \/ BitmapSet \/ BitmapGet \/ BitmapAdd \/ BitmapSub \/ BitmapMul
    \/ BitmapDiv \/ BitmapMod \/ BitmapGrow \/ BitmapShrink \/ BitmapPush
    \/ BitmapInsert \/ BitmapConsume \/ BitmapShift \/ BitmapRol \/ BitmapRor

SpecBitmap == BitmapInit /\ [][BitmapNext]_vars

\* ------------------------------------------- add and sub (SpecArithmetic)

\* the bitmaps of up to MaxWidth bits, a byte among them
ArithmeticInit ==
    /\ NoProvider
    /\ NoInstance
    /\ NoCast
    /\ NoArray
    /\ NoUnion
    /\ input = <<>>
    /\ output \in [bitmap : Bitmaps(MaxWidth), value : {<<>>}]
    /\ definition = NoDefinition

ArithmeticNext == BitmapAdd \/ BitmapSub

SpecArithmetic == ArithmeticInit /\ [][ArithmeticNext]_vars

\* ------------------------------------------------------- runs (SpecRun)

\* output holds the bitmap, the integer runlength returned or the bitmap run
\* yielded last, the sum of the lengths yielded, and the generator's locals
RunInit ==
    /\ NoProvider
    /\ NoInstance
    /\ NoCast
    /\ NoArray
    /\ NoUnion
    /\ input = <<>>
    /\ output \in [bitmap : Bitmaps(MaxBits), value : {<<>>}, total : {0}, locals : {<<>>}]
    /\ definition = NoDefinition

\* bitmap.runlength(bitmap, value, position)
Runlength ==
    /\ op = "init"
    /\ \E val \in BOOLEAN, pos \in -1..MaxBits + 1 :
        LET res == bitmap_runlength(output.bitmap, val, pos)
        IN  /\ input' = << Call("runlength", output.bitmap, << val, pos >>) >>
            /\ raised' = res.raised
            /\ output' = IF res.raised = "none"
                         THEN [output EXCEPT !.value = << res.value >>] ELSE output
    /\ op' = "runlength"
    /\ UNCHANGED <<provVars, kind, _fields_, position, allocated, value, custombs,
                   logged, failed, castVars, arrVars, unionVars, definition>>

\* bitmap.run(bitmap, position) up to its loop
Run ==
    /\ op = "init"
    /\ \E pos \in -1..MaxBits + 1 :
        /\ input' = << Call("run", output.bitmap, << pos >>) >>
        /\ IF pos < 0 \/ pos > abs(output.bitmap[2])
           THEN /\ raised' = "AssertionError"
                /\ op' = "raised"
                /\ output' = output
           ELSE /\ raised' = "none"
                /\ op' = "run"
                /\ output' = [output EXCEPT !.locals =
                                  << [size |-> abs(output.bitmap[2]), position |-> pos,
                                      value |-> BitAnd(output.bitmap[1], 1) # 0] >>]
    /\ UNCHANGED <<provVars, kind, _fields_, position, allocated, value, custombs,
                   logged, failed, castVars, arrVars, unionVars, definition>>

\* next() of the generator: one round of the loop, or its end
RunNext ==
    /\ op \in {"run", "yield"}
    /\ IF output.locals[1].size > 0
       THEN LET res == run_iteration(output.bitmap, output.locals[1])
            IN  /\ raised' = res.raised
                /\ op' = IF res.raised = "none" THEN "yield" ELSE "raised"
                /\ output' = IF res.raised = "none"
                             THEN [output EXCEPT !.value = res.yield,
                                                 !.total = @ + res.yield[1][2],
                                                 !.locals = << res.locals >>]
                             ELSE output
       ELSE /\ op' = "done" /\ raised' = "none" /\ output' = output
    /\ UNCHANGED <<provVars, kind, _fields_, position, allocated, value, custombs,
                   logged, failed, castVars, arrVars, unionVars, input, definition>>

RunSteps == Runlength \/ Run \/ RunNext

\* the consumer of the generator keeps asking for the next run
SpecRun == RunInit /\ [][RunSteps]_vars /\ WF_vars(RunNext)

\* -------------------------------------------------- cursors (SpecSeek)

\* input and output hold the position a caller expects the cursor to be at
\* before and after the last call: the offset of its last seek advanced by the
\* bytes consumed or stored since; empty until the first seek
SeekInit ==
    /\ pkind \in {"string", "proxy", "lldb", "empty"}
    /\ data \in IF pkind = "empty" THEN {<<>>} ELSE SeqsUpTo(0..1, MaxData)
    /\ offset = IF pkind = "string" THEN NoOffset ELSE 0
    /\ ret = NoRet
    /\ NoInstance
    /\ NoCast
    /\ NoArray
    /\ NoUnion
    /\ input = <<>> /\ output = <<>>
    /\ definition = NoDefinition

Advanced(expected, n) == IF expected = <<>> THEN <<>> ELSE << expected[1] + n >>

\* the positions the model follows the expectation to
Expectable(expected) ==
    IF expected = <<>> THEN TRUE ELSE expected[1] <= MaxData + MaxAmount

\* source.seek(o)
ProviderSeekCall ==
    \E o \in 0..MaxOffset + MaxAmount :
        LET r == IF pkind = "empty" THEN emptySeek(offset, o) ELSE ProviderSeek(offset, o)
        IN  /\ offset' = r.offset
            /\ ret' = [op |-> "seek", amount |-> o, status |-> "ok",
                       bytes |-> <<>>, prev |-> r.result]
            /\ input' = output
            /\ output' = << o >>
            /\ UNCHANGED <<pkind, data, contVars, castVars, arrVars, unionVars, definition>>

\* source.consume(amount)
ProviderConsumeCall ==
    \E amount \in 0..MaxAmount :
        LET r == IF pkind = "empty" THEN emptyConsume(offset, amount)
                 ELSE Consume(pkind, data, offset, amount)
        IN  /\ offset' = r.offset
            /\ ret' = [op |-> "consume", amount |-> amount, status |-> r.status,
                       bytes |-> r.bytes, prev |-> offset]
            /\ input' = output
            /\ output' = Advanced(output, Len(r.bytes))
            /\ Expectable(output')
            /\ UNCHANGED <<pkind, data, contVars, castVars, arrVars, unionVars, definition>>

\* source.store(bytes)
ProviderStoreCall ==
    /\ pkind # "proxy"
    /\ \E bytes \in SeqsUpTo(0..1, MaxAmount) :
        LET r == IF pkind = "empty" THEN emptyStore(data, offset, bytes)
                 ELSE Store(pkind, data, offset, bytes)
        IN  /\ Len(r.data) <= MaxData
            /\ data' = r.data
            /\ offset' = r.offset
            /\ ret' = [op |-> "store", amount |-> Len(bytes), status |-> r.status,
                       bytes |-> bytes, prev |-> offset]
            /\ input' = output
            /\ output' = IF r.status = "ok" THEN Advanced(output, Len(bytes)) ELSE output
            /\ Expectable(output')
            /\ UNCHANGED <<pkind, contVars, castVars, arrVars, unionVars, definition>>

SeekNext == ProviderSeekCall \/ ProviderConsumeCall \/ ProviderStoreCall

SpecSeek == SeekInit /\ [][SeekNext]_vars

\* ------------------------------------------------ alignment (SpecAlign)

\* a structure at position whose fields are those of _fields_ (their
\* lengths), then dynamic.align(input[1]), then one more byte
AlignInit ==
    /\ NoProvider
    /\ kind = "pstruct"
    /\ _fields_ \in UNION {[1..n -> 1..MaxLen] : n \in 0..MaxFields - 1}
    /\ position \in 0..MaxOffset
    /\ allocated = FALSE /\ value = <<>> /\ custombs = -1
    /\ op = "init" /\ raised = "none" /\ logged = "none" /\ failed = FALSE
    /\ NoCast
    /\ NoArray
    /\ NoUnion
    /\ input \in {<< alignment >> : alignment \in 1..MaxAlign}
    /\ output = <<>>
    /\ definition = NoDefinition

\* pstruct.type.load up to the end of its loop: each element is created at
\* ofs, appended, asked for its blocksize, and ofs moves on by it
AlignLoad ==
    /\ op = "init"
    /\ LET before == pstruct_elements(_fields_, 1, <<>>, position, -1, custombs)
           sizes == [i \in 1..Len(before) |-> type_blocksize(before[i])]
           ofs == position + SumSeq(sizes)
           bs == align_blocksize(input[1], TRUE, position, sizes, Len(before) + 1)
       IN  /\ value' = before \o << new(bs, ofs), new(1, ofs + bs) >>
           /\ output' = [offset |-> ofs, blocksize |-> bs, next |-> ofs + bs]
    /\ op' = "load"
    /\ UNCHANGED <<provVars, kind, _fields_, position, allocated, custombs, raised,
                   logged, failed, castVars, arrVars, unionVars, input, definition>>

\* dynamic.align(size)(offset=position).blocksize() of an instance of its own
AlignAlone ==
    /\ op = "init"
    /\ LET bs == align_blocksize(input[1], FALSE, 0, <<>>, 0)
       IN  /\ value' = << new(bs, position) >>
           /\ output' = [offset |-> position, blocksize |-> bs, next |-> position + bs]
    /\ op' = "alone"
    /\ UNCHANGED <<provVars, kind, _fields_, position, allocated, custombs, raised,
                   logged, failed, castVars, arrVars, unionVars, input, definition>>

AlignNext == AlignLoad \/ AlignAlone

SpecAlign == AlignInit /\ [][AlignNext]_vars

\* ------------------------------------------------ infinite (SpecInfinite)

\* custombs is the blocksize of the array's parent, -1 for an array that has
\* none
InfiniteInit ==
    /\ pkind \in {"string", "lldb"}
    /\ data \in {Letters(n) : n \in 0..MaxData + 2}
    /\ offset = IF pkind = "string" THEN NoOffset ELSE 0
    /\ ret = NoRet
    /\ kind = "infinite"
    /\ _fields_ = <<>>
    /\ position \in 0..MaxOffset
    /\ allocated = FALSE /\ value = <<>>
    /\ custombs \in {NoLength} \cup 0..MaxData
    /\ op = "init" /\ raised = "none" /\ logged = "none" /\ failed = FALSE
    /\ NoCast
    /\ attrs \in [_object_ : 1..MaxLen, length : {NoLength} \cup 0..MaxFields]
    /\ inserted = NoInsert
    /\ NoUnion
    /\ NoCall

\* array.load() of an infinite array
InfiniteLoad ==
    /\ op = "init"
    /\ LET res == infinite_load(attrs.length, attrs._object_, position, custombs, source)
       IN  /\ value' = res.value
           /\ allocated' = TRUE
           /\ offset' = res.offset
           /\ raised' = res.raised
    /\ op' = "load"
    /\ UNCHANGED <<pkind, data, ret, kind, _fields_, position, custombs, logged,
                   failed, castVars, arrVars, unionVars, pureVars>>

InfiniteNext == InfiniteLoad

SpecInfinite == InfiniteInit /\ [][InfiniteNext]_vars

\* ------------------------------------------------ container.setposition, nested

\* an element is an atomic instance or a container, which holds its own
\* elements in children once it is allocated (self.value is not None)
IsContainer(n) == "children" \in DOMAIN n

RECURSIVE element_size(_)
\* type.size, container.size
element_size(n) ==
    IF ~IsContainer(n) THEN type_size(n)
    ELSE IF ~n.allocated THEN 0
    ELSE SumSeq([i \in 1..Len(n.children) |-> element_size(n.children[i])])

RECURSIVE blocksize_raises(_)
\* container.blocksize raises InitializationError for a container without a
\* value, its own or below it
blocksize_raises(n) ==
    /\ IsContainer(n)
    /\ \/ ~n.allocated
       \/ \E i \in 1..Len(n.children) : blocksize_raises(n.children[i])

RECURSIVE element_blocksize(_)
\* type.blocksize, container.blocksize
element_blocksize(n) ==
    IF ~IsContainer(n) THEN type_blocksize(n)
    ELSE SumSeq([i \in 1..Len(n.children) |-> element_blocksize(n.children[i])])

RECURSIVE element_initializedQ(_)
\* type.initializedQ, container.initializedQ
element_initializedQ(n) ==
    IF ~IsContainer(n) THEN type_initializedQ(n)
    ELSE /\ n.allocated
         /\ \A i \in 1..Len(n.children) : element_initializedQ(n.children[i])
         /\ element_size(n) >= element_blocksize(n)

\* a step that always takes the blocksize
advance_blocksize(n) == element_blocksize(n)

\* the step of the loop of container.setposition
advance(n) == IF element_initializedQ(n) THEN element_size(n) ELSE element_blocksize(n)

RECURSIVE container_setposition(_, _, _)
RECURSIVE setposition_loop(_, _, _)
\* the loop of container.setposition over self.value
setposition_loop(children, i, ofs) ==
    IF i > Len(children) THEN [children |-> children, raised |-> "none"]
    ELSE LET res == container_setposition(children[i], ofs, TRUE)
             placed == [children EXCEPT ![i] = res.self]
         IN  IF res.raised # "none" THEN [children |-> placed, raised |-> res.raised]
             ELSE IF ~element_initializedQ(res.self) /\ blocksize_raises(res.self)
             THEN [children |-> placed, raised |-> "InitializationError"]
             ELSE setposition_loop(placed, i + 1, ofs + advance(res.self))

\* base.setposition, container.setposition
container_setposition(n, ofs, recurse) ==
    LET moved == [n EXCEPT !.offset = ofs]
    IN  IF ~IsContainer(n) \/ ~recurse \/ ~n.allocated
        THEN [self |-> moved, raised |-> "none"]
        ELSE LET res == setposition_loop(n.children, 1, ofs)
             IN  [self |-> [moved EXCEPT !.children = res.children],
                  raised |-> res.raised]

\* ------------------------------------------------ setoffset (SpecOffset)

Children == 3

\* the atomic instances a container is built of: not loaded, cut short by the
\* source, loaded, and set to more bytes than its length
Atoms ==
    {[offset |-> 0, length |-> 1, value |-> None],
     [offset |-> 0, length |-> MaxLen, value |-> Letters(MaxLen - 1)],
     [offset |-> 0, length |-> MaxLen, value |-> Letters(MaxLen)],
     [offset |-> 0, length |-> 1, value |-> Letters(MaxLen)]}

Nested ==
    {[offset |-> 0, allocated |-> FALSE, children |-> <<>>]} \cup
    {[offset |-> 0, allocated |-> TRUE, children |-> c] :
        c \in UNION {[1..k -> Atoms] : k \in 0..2}}

\* value holds the elements of the container, all at the offset they were
\* created with
OffsetInit ==
    /\ pkind = "string" /\ data = <<>> /\ offset = NoOffset /\ ret = NoRet
    /\ kind = "container"
    /\ _fields_ = <<>>
    /\ position = 0
    /\ allocated = TRUE
    /\ value \in [1..Children -> Atoms \cup Nested]
    /\ custombs = NoLength
    /\ op = "init" /\ raised = "none" /\ logged = "none" /\ failed = FALSE
    /\ NoCast
    /\ NoArray
    /\ NoUnion
    /\ NoCall

\* instance.setoffset(o, recurse=...)
SetOffset ==
    /\ op = "init"
    /\ \E o \in 0..MaxOffset, recurse \in BOOLEAN :
        LET res == container_setposition([offset |-> position, allocated |-> TRUE,
                                          children |-> value],
                                         o, recurse)
        IN  /\ position' = res.self.offset
            /\ value' = res.self.children
            /\ raised' = res.raised
            /\ input' = <<o, recurse>>
    /\ op' = "setoffset"
    /\ UNCHANGED <<provVars, kind, _fields_, allocated, custombs, logged, failed,
                   castVars, arrVars, unionVars, output, definition>>

OffsetNext == SetOffset

SpecOffset == OffsetInit /\ [][OffsetNext]_vars

\* ------------------------------------------------ _base_generic.__update__

\* the names of attributes: an ordinary one and three that a class lists in
\* its ignored set (offset: base; length: type; _fields_: pstruct.type)
Keys == {"a1", "offset", "length", "_fields_"}

\* a dictionary of attributes gives every name a value, 0 for a name that is
\* not in it
NoAttributes == [k \in Keys |-> 0]

\* dict.update
dict_update(old, given) == [k \in Keys |-> IF given[k] # 0 THEN given[k] ELSE old[k]]

\* a filter that lets every name through
filter_nothing(ignored, recurse) == recurse

\* the recurse dictionary without the names the instance ignores
filter_ignored(ignored, recurse) == [k \in Keys |-> IF k \in ignored THEN 0 ELSE recurse[k]]

RECURSIVE update(_, _, _)
\* _base_generic.__update__: every attribute given is set on the instance,
\* those under recurse that the instance does not ignore are kept in
\* self.attributes and given to the elements of self.value
update(n, given, recurse) ==
    LET res == dict_update(recurse, given)
        kept == filter_ignored(n.ignored, recurse)
        updated == [n EXCEPT !.set = dict_update(@, res),
                             !.attributes = dict_update(@, kept)]
    IN  IF kept # NoAttributes /\ n.container /\ n.allocated
        THEN [updated EXCEPT !.children =
                  [i \in 1..Len(n.children) |-> update(n.children[i], kept, kept)]]
        ELSE updated

\* ------------------------------------------------ attributes (SpecAttributes)

\* an instance of ptype.type
Atom(old) ==
    [ignored |-> {"offset", "length"}, container |-> FALSE, allocated |-> TRUE,
     set |-> [NoAttributes EXCEPT !["a1"] = old], attributes |-> NoAttributes,
     children |-> <<>>]

\* an instance of pstruct.type with one field
Struct(old, loaded) ==
    [ignored |-> {"offset", "_fields_"}, container |-> TRUE, allocated |-> loaded,
     set |-> NoAttributes, attributes |-> NoAttributes,
     children |-> IF loaded THEN <<Atom(old)>> ELSE <<>>]

\* an instance of parray.type holding an atomic instance and a structure
Array(old, loaded) ==
    [ignored |-> {"offset"}, container |-> TRUE, allocated |-> TRUE,
     set |-> NoAttributes, attributes |-> NoAttributes,
     children |-> <<Atom(old), Struct(old, loaded)>>]

\* root is the instance that is given attributes; input holds what it is
\* given outside and under the 'recurse' key and the instance as it was
AttributesInit ==
    /\ pkind = "string" /\ data = <<>> /\ offset = NoOffset /\ ret = NoRet
    /\ NoInstance
    /\ NoCast
    /\ NoArray
    /\ root \in {Array(old, loaded) : old \in {0, 3}, loaded \in BOOLEAN}
    /\ views = <<>> /\ written = NoWrite
    /\ NoCall

\* instance.__update__(attrs, recurse=...); a value given outside is 1, one
\* given under recurse is 2
Update ==
    /\ input = <<>>
    /\ \E given \in [Keys -> {0, 1}], recurse \in [Keys -> {0, 2}] :
        /\ root' = update(root, given, recurse)
        /\ input' = [given |-> given, recurse |-> recurse, old |-> root]
    /\ UNCHANGED <<provVars, contVars, castVars, arrVars, views, written, output,
                   definition>>

AttributesNext == Update

SpecAttributes == AttributesInit /\ [][AttributesNext]_vars

\* ------------------------------------------------ pointer_t.dereference

\* pointer_t._value_.__getvalue__: the bytes of the pointer, the least
\* significant first, as an integer
RECURSIVE pointer_getvalue(_)
pointer_getvalue(bytes) ==
    IF bytes = <<>> THEN 0 ELSE bytes[1] + 256 * pointer_getvalue(Tail(bytes))

\* the key utils.memoize files a result of dereference under: the pointer
\* (there is one), its source and _object_ (they do not change), the decoded
\* value and the attributes of the call
memoize_key(bytes, given) == <<pointer_getvalue(bytes), given>>

\* the result filed under a key, 0 if there is none
cached(cache, key) ==
    IF \E c \in cache : c.key = key THEN (CHOOSE c \in cache : c.key = key).id ELSE 0

\* pointer_t.dereference behind utils.memoize: a key seen before gives the
\* instance filed under it, any other key a new instance of _object_ at the
\* decoded offset, which is filed; instances are numbered as they are created
dereference(bytes, given, cache, instances) ==
    LET key == memoize_key(bytes, given)
        id == cached(cache, key)
    IN  IF id # 0
        THEN [id |-> id, cache |-> cache, instances |-> instances]
        ELSE [id |-> Len(instances) + 1,
              cache |-> cache \cup {[key |-> key, id |-> Len(instances) + 1]},
              instances |-> Append(instances,
                                [offset |-> pointer_getvalue(bytes), value |-> None])]

\* ------------------------------------------------ dereference (SpecDereference)

\* the raw values of the pointer
Pointers == {<<lo, 0>> : lo \in 0..MaxOffset}

\* value holds the raw bytes of the pointer, views the instances that were
\* created, written the cache of the memoized method, output the instance
\* each call returned and input the last call
DereferenceInit ==
    /\ pkind = "string" /\ data = <<>> /\ offset = NoOffset /\ ret = NoRet
    /\ kind = "pointer" /\ _fields_ = <<>> /\ position = 0
    /\ allocated = TRUE /\ value \in Pointers /\ custombs = NoLength
    /\ op = "init" /\ raised = "none" /\ logged = "none" /\ failed = FALSE
    /\ NoCast
    /\ NoArray
    /\ root = NoRoot /\ views = <<>> /\ written = {}
    /\ NoCall

\* pointer.dereference(**attrs)
Dereference ==
    /\ Len(output) < MaxKey
    /\ \E given \in {<<>>, <<"a1">>} :
        LET res == dereference(value, given, written, views)
        IN  /\ views' = res.instances
            /\ written' = res.cache
            /\ output' = Append(output, res.id)
            /\ input' = <<res.id, pointer_getvalue(value)>>
    /\ op' = "dereference"
    /\ UNCHANGED <<provVars, kind, _fields_, position, allocated, value, custombs,
                   raised, logged, failed, castVars, arrVars, root, definition>>

\* result.set(byte) on the instance the last call returned
DereferencedSet ==
    /\ output # <<>>
    /\ \E byte \in 0..1 :
        views' = [views EXCEPT ![output[Len(output)]].value = <<byte>>]
    /\ op' = "set"
    /\ UNCHANGED <<provVars, kind, _fields_, position, allocated, value, custombs,
                   raised, logged, failed, castVars, arrVars, root, written,
                   pureVars>>

\* result.setoffset(o) on the instance the last call returned
DereferencedSetOffset ==
    /\ output # <<>>
    /\ \E o \in 0..MaxOffset :
        views' = [views EXCEPT ![output[Len(output)]].offset = o]
    /\ op' = "setoffset"
    /\ UNCHANGED <<provVars, kind, _fields_, position, allocated, value, custombs,
                   raised, logged, failed, castVars, arrVars, root, written,
                   pureVars>>

\* pointer.set(address)
PointerSet ==
    /\ \E bytes \in Pointers : value' = bytes
    /\ op' = "pointer"
    /\ UNCHANGED <<provVars, kind, _fields_, position, allocated, custombs,
                   raised, logged, failed, castVars, arrVars, unionVars, pureVars>>

DereferenceNext == Dereference \/ DereferencedSet \/ DereferencedSetOffset \/ PointerSet

SpecDereference == DereferenceInit /\ [][DereferenceNext]_vars

\* ------------------------------------------------ pstruct.type.load, field by field (SpecFields)

FieldNames == 1..MaxKey

\* _fields_ holds a name, the length of the type and whether the type is given
\* as a function of the structure; attrs holds the locals of load and the
\* names and index of the structure, output what each function found in
\* self.value when it was called
FieldsInit ==
    /\ pkind \in {"string", "lldb"}
    /\ data \in {Letters(n) : n \in 0..MaxData}
    /\ offset = IF pkind = "string" THEN NoOffset ELSE 0
    /\ ret = NoRet
    /\ kind = "pstruct"
    /\ _fields_ \in UNION {[1..k -> [name : FieldNames, length : {1, MaxLen},
                                     function : BOOLEAN]] : k \in 1..MaxFields}
    /\ position \in {0, MaxOffset}
    /\ allocated = FALSE /\ value = <<>>
    /\ custombs \in {NoLength, MaxLen + 1}
    /\ op = "init" /\ raised = "none" /\ logged = "none" /\ failed = FALSE
    /\ NoCast
    /\ attrs = [i |-> 0, ofs |-> 0, current |-> NoLength, names |-> <<>>,
                fastindex |-> {}]
    /\ inserted = NoInsert
    /\ NoUnion
    /\ NoCall

\* entry of load: self.value and the index are emptied
FieldsBegin ==
    /\ op = "init"
    /\ value' = <<>>
    /\ attrs' = [i |-> 1, ofs |-> position,
                 current |-> IF custombs = NoLength THEN NoLength ELSE 0,
                 names |-> <<>>, fastindex |-> {}]
    /\ op' = "fields"
    /\ UNCHANGED <<provVars, kind, _fields_, position, allocated, custombs, raised,
                   logged, failed, castVars, inserted, unionVars, pureVars>>

\* one pass of the loop
FieldsElement ==
    /\ op = "fields"
    /\ attrs.i <= Len(_fields_)
    /\ LET field == _fields_[attrs.i]
           name == element_name(field.name, attrs.fastindex, attrs.ofs, position)
           res == field_step(field, value, attrs.ofs, attrs.current, custombs, source)
       IN  /\ output' = IF field.function
                        THEN Append(output, [index |-> attrs.i, value |-> value,
                                             names |-> attrs.names])
                        ELSE output
           /\ value' = res.value
           /\ offset' = res.offset
           /\ raised' = res.raised
           /\ logged' = IF Len(name) = 2 THEN "warn" ELSE logged
           /\ attrs' = [attrs EXCEPT !.i = @ + 1, !.ofs = res.ofs,
                                     !.current = res.current,
                                     !.names = Append(@, name)]
           /\ op' = IF res.raised # "none" THEN "load"
                    ELSE IF res.stop THEN "break" ELSE "fields"
    /\ UNCHANGED <<pkind, data, ret, kind, _fields_, position, allocated, custombs,
                   failed, castVars, inserted, unionVars, input, definition>>

\* after the loop: container.load of the elements that were created
FieldsLoad ==
    /\ \/ op = "break"
       \/ op = "fields" /\ attrs.i > Len(_fields_)
    /\ LET res == container_load(value, position, custombs, source)
       IN  /\ value' = res.value
           /\ offset' = res.offset
           /\ raised' = res.raised
           /\ logged' = IF res.logged # "none" THEN res.logged ELSE logged
    /\ allocated' = TRUE
    /\ op' = "load"
    /\ UNCHANGED <<pkind, data, ret, kind, _fields_, position, custombs, failed,
                   castVars, arrVars, unionVars, pureVars>>

FieldsNext == FieldsBegin \/ FieldsElement \/ FieldsLoad

SpecFields == FieldsInit /\ [][FieldsNext]_vars

\* ------------------------------------------------- claims on SpecProv

\* the bytes the provider holds from the cursor a call started at
Available == IF ret.prev = NoOffset THEN <<>> ELSE Drop(data, ret.prev)

\* C4 (as stated): consume(amount) returns exactly amount bytes or fails with a
\* read error; it never returns fewer bytes than requested.
C4_ConsumeExactOrError ==
    ret.op = "consume" =>
        \/ ret.status = "ConsumeError"
        \/ ret.status = "ok" /\ Len(ret.bytes) = ret.amount

\* C4 (amended): proxy.consume and lldb.consume return exactly amount bytes or
\* fail with a read error; string.consume fails only when amount > 0 and the
\* cursor is at or past the end of the data, and otherwise returns the bytes
\* from the cursor on, amount of them or as many as are left.
C4_ConsumeShortRead ==
    ret.op = "consume" =>
        IF pkind = "string"
        THEN IF ret.amount > 0 /\ Available = <<>>
             THEN ret.status = "ConsumeError"
             ELSE /\ ret.status = "ok"
                  /\ ret.bytes = Take(Available, ret.amount)
        ELSE \/ ret.status = "ConsumeError" /\ ret.prev + ret.amount > Len(data)
             \/ /\ ret.status = "ok"
                /\ Len(ret.bytes) = ret.amount
                /\ ret.bytes = Take(Available, ret.amount)

\* C4 witness: a string provider handed back fewer bytes than were asked for
C4_Witness ==
    /\ ret.op = "consume" /\ pkind = "string" /\ ret.status = "ok"
    /\ ret.bytes # <<>> /\ Len(ret.bytes) < ret.amount

\* ------------------------------------------------- claims on SpecCont

\* self.blocksize() and self.size() of the instance
Blocksize == container_blocksize(value, custombs)
Size == container_size(value)
Initialized == allocated /\ container_initializedQ(value, custombs)

\* the bytes the provider holds from the instance's offset on (no commit has
\* changed them when op is "load")
Held == Drop(data, position)

\* where the i-th child starts and ends inside the instance
StartOf(i) == SumSeq(SubSeq(_fields_, 1, i - 1))
EndOf(i) == SumSeq(SubSeq(_fields_, 1, i))

\* the bytes a child holds, none for a child whose value is None
Bytes(n) == IF n.value = None THEN <<>> ELSE n.value

\* C1: for a structure of fixed-size fields blocksize() is the sum of the
\* fields' blocksizes, and after load() from a provider holding at least
\* blocksize() bytes at its offset, size() = blocksize() and it is initialized.
C1_SizeIsBlocksize ==
    (kind = "pstruct" /\ op = "load") =>
        /\ Len(value) = Len(_fields_)
        /\ Blocksize = SumSeq(_fields_)
        /\ Len(Held) >= Blocksize =>
               /\ raised = "none"
               /\ Size = Blocksize
               /\ Initialized

\* C1 witness: a structure of three fields loaded from enough bytes
C1_Witness ==
    /\ kind = "pstruct" /\ op = "load" /\ Len(value) = 3
    /\ Blocksize > 2 /\ Len(Held) >= Blocksize

PartialLoad ==
    /\ ~Initialized
    /\ Size < Blocksize
    /\ \A i \in 1..Len(value) :
        /\ EndOf(i) <= Len(Held) =>
               Bytes(value[i]) = SubSeq(Held, StartOf(i) + 1, EndOf(i))
        /\ (StartOf(i) <= Len(Held) /\ Len(Held) < EndOf(i)) =>
               Bytes(value[i]) = Drop(Held, StartOf(i))

C5_FailedStoreRaises ==
    (op \in {"commit", "element"} /\ failed) => raised = "CommitError"

\* C6 (as stated): loading a container whose children's blocksizes sum to more
\* than its blocksize() raises nothing; only the leading children that fit
\* within blocksize() receive new bytes, the others keep their contents.
Overcommitted ==
    /\ kind = "container" /\ op = "load"
    /\ custombs >= 0 /\ SumSeq(_fields_) > custombs
    /\ Len(Held) >= custombs

C6_OnlyFittingChildren ==
    Overcommitted =>
        /\ raised = "none"
        /\ \A i \in 1..Len(value) :
            IF EndOf(i) <= custombs
            THEN value[i].value = SubSeq(Held, StartOf(i) + 1, EndOf(i))
            ELSE value[i] = OldChildren(_fields_, position)[i]

\* C6 (amended): it raises nothing; the children are loaded in order while
\* the blocksizes before them sum to less than blocksize(): a child wholly
\* inside the block receives its bytes, a child the end of the block cuts
\* has its contents replaced by the bytes left in the block, and the children
\* starting at or after the end of the block keep their contents.
C6_CutChildIsPartial ==
    Overcommitted =>
        /\ raised = "none"
        /\ \A i \in 1..Len(value) :
            IF EndOf(i) <= custombs
            THEN value[i].value = SubSeq(Held, StartOf(i) + 1, EndOf(i))
            ELSE IF StartOf(i) < custombs
            THEN value[i].value = SubSeq(Held, StartOf(i) + 1, custombs)
            ELSE value[i] = OldChildren(_fields_, position)[i]

\* C6 witness: a child straddles the end of the block, and one follows it
C6_Witness ==
    /\ Overcommitted
    /\ \E i \in 1..Len(value) - 1 :
        /\ StartOf(i) < custombs /\ custombs < EndOf(i)
        /\ value[i + 1].value # <<>>

\* ------------------------------------------------- claims on SpecCast

\* the bytes an instance holds: what its children hold, in order
Contents(self) == Join([i \in 1..Len(self.value) |-> Bytes(self.value[i])])

\* blocksize() of the type t
TypeBlocksize == IF t.iscontainer THEN t.length * t._object_ ELSE t.length

\* C7 (as stated): cast(t) never raises; if t's blocksize is smaller than the
\* source's size the result holds the first blocksize(t) bytes of the source's
\* serialization; if it is larger the result holds the source's bytes, has the
\* source's size(), keeps blocksize() of t and is not initialized.
C7_CastBySize ==
    op = "cast" =>
        /\ raised = "none"
        /\ TypeBlocksize < size(src) =>
               Contents(result) = Take(serialize(src), TypeBlocksize)
        /\ TypeBlocksize > size(src) =>
               /\ Contents(result) = Contents(src)
               /\ size(result) = size(src)
               /\ blocksize(result) = TypeBlocksize
               /\ ~initializedQ(result)

\* C7 (amended): the same with the length of the source's serialization (its
\* size() when it is initialized, else its bytes padded with zeroes to its
\* blocksize()) in the place of the source's size() and bytes.
C7_CastBySerialization ==
    op = "cast" =>
        /\ raised = "none"
        /\ TypeBlocksize < Len(serialize(src)) =>
               Contents(result) = Take(serialize(src), TypeBlocksize)
        /\ TypeBlocksize > Len(serialize(src)) =>
               /\ Contents(result) = serialize(src)
               /\ size(result) = Len(serialize(src))
               /\ blocksize(result) = TypeBlocksize
               /\ ~initializedQ(result)
        /\ initializedQ(src) =>
               /\ Len(serialize(src)) = size(src)
               /\ serialize(src) = Contents(src)

\* C7 witness: an initialized instance of two bytes was cast to a larger array
C7_Witness ==
    /\ op = "cast" /\ initializedQ(src) /\ size(src) = 2
    /\ t.iscontainer /\ TypeBlocksize > 2
    /\ size(result) = 2 /\ ~initializedQ(result)

\* ------------------------------------------------- claims on SpecArray

\* C8 (as stated): after insert(i, x) the object x is at index i at the offset
\* the element formerly at index i held, the elements before it keep their
\* offsets, and every element after it is at its predecessor's offset plus its
\* predecessor's size().
C8_InsertReflowsBySize ==
    (op = "insert" /\ raised = "none") =>
        LET n == Len(value)
            k == Position(inserted.index, n)
            was == inserted.before[Position(inserted.index, Len(inserted.before))]
        IN  /\ value[k] = [inserted.object EXCEPT !.offset = was.offset]
            /\ \A j \in 1..k - 1 : value[j].offset = inserted.before[j].offset
            /\ \A j \in k + 1..n :
                   value[j].offset = value[j - 1].offset + type_size(value[j - 1])

\* ---------------------------------------------- claims on SpecTerminated

\* the bytes the provider holds for the j-th element of the array
ElementBytes(j) ==
    SubSeq(data, position + (j - 1) * attrs._object_ + 1, position + j * attrs._object_)

\* C9: loading a terminated array stops at the first element that is a
\* terminator: no element before the last one is a terminator, a load that
\* returns with fewer elements than a given length (or with no length given)
\* ends in a terminator, every element before the last holds the provider's
\* bytes in order, and a load that ran out of bytes raises with its last
\* element not initialized.
C9_StopsAtFirstTerminator ==
    op = "load" =>
        LET n == Len(value)
        IN  /\ \A j \in 1..n - 1 :
                   /\ ~isTerminator(value[j])
                   /\ value[j].value = ElementBytes(j)
            /\ raised = "none" =>
                   /\ attrs.length = NoLength \/ n < attrs.length =>
                          n >= 1 /\ isTerminator(value[n])
                   /\ attrs.length # NoLength => n <= attrs.length
                   /\ n >= 1 => value[n].value = ElementBytes(n)
            /\ raised # "none" =>
                   /\ raised = "LoadError"
                   /\ n >= 1 /\ ~type_initializedQ(value[n])

\* C9 witness: the bytes 1,1,1,1,0,1,1 loaded as one-byte elements gave
\* exactly five elements
C9_Witness ==
    /\ op = "load" /\ raised = "none" /\ attrs.length = NoLength
    /\ attrs._object_ = 1 /\ position = 0
    /\ data = <<1, 1, 1, 1, 0, 1, 1>>
    /\ Len(value) = 5 /\ isTerminator(value[5])

\* --------------------------------------------------- claims on SpecBlock

\* C10 (as stated): after loading a block array the sizes of its elements sum
\* to at most its blocksize().
C10_SizeWithinBlocksize ==
    (op = "load" /\ attrs.length = NoLength) => uninitialized_size(value) <= custombs

\* ------------------------------------------------- claims on SpecUnion

\* the root instance of the union: its shared storage
Storage == value[1]

\* C11 (as stated): after a field of the union is committed, the storage of
\* the union holds the committed bytes, and another field (one that was not
\* itself set to a value) read afterwards holds the bytes of the storage, as
\* many as its type is long.
C11_WriteIsSeenByOtherViews ==
    (allocated /\ written.name # 0) =>
        /\ Take(Storage.value, Len(written.bytes)) = written.bytes
        /\ (op = "getitem" /\ raised = "none"
                /\ written.read \notin {written.name, written.set}) =>
               views[written.read].value =
                   Take(type_serialize(Storage, FALSE, 0, 0), views[written.read].length)

C14_DecodeInvertsEncode ==
    (op = "decode" /\ input.pointer # <<>> /\ input.flipped = <<>>)
        => output = input.pointer

\* C15 (as stated): when any single bit of an encoded word is flipped, decode
\* reports a checksum mismatch as a warning and still returns a pointer
\* without raising.
C15_EveryFlipIsDetected ==
    (op = "decode" /\ input.flipped # <<>>)
        => (logged = "warn" /\ raised = "none" /\ Len(output) = 1)

\* C15 (amended): decode of a word with one bit flipped never raises and
\* returns a pointer; it warns of a mismatch exactly when the flipped bit is
\* one of the four high bits of its byte (the checksum nibble itself, or a bit
\* that lands in the low nibble of a byte of the decoded pointer); a flip of
\* one of the four low bits of a byte goes unnoticed.
C15_FlipDetectedInHighNibble ==
    (op = "decode" /\ input.flipped # <<>>)
        => /\ raised = "none" /\ Len(output) = 1
           /\ (logged = "warn") = (input.flipped[1] % 8 >= 4)

C15_Witness ==
    op = "decode" /\ input.flipped = << 13 >> /\ input.cookie = 171 /\ logged = "warn"

\* ------------------------------------------------- claims on SpecBitmap

\* a bitmap was pushed (or inserted) and then as many bits as the operand has
\* were consumed (or shifted)
RoundTrip(first, second) ==
    /\ Len(input) = 2
    /\ input[1].op = first /\ input[2].op = second
    /\ input[2].args = << abs(input[1].args[1][2]) >>

\* C16 (as stated): for every pair of bitmaps a and b of either signedness,
\* consume(push(a, b), width(b)) returns (a, b): the remaining bitmap equals
\* a in value, width and signedness, and the extracted value is the value of b.
C16_ConsumeInvertsPush ==
    RoundTrip("push", "consume")
        => /\ raised = "none"
           /\ output.bitmap = input[1].bitmap
           /\ output.value = << bitmap_value(input[1].args[1]) >>

\* the bits of bitmap b read with the signedness of bitmap a
ReadAs(b, a) == bitmap_value(<< b[1], IF a[2] < 0 THEN -abs(b[2]) ELSE abs(b[2]) >>)

\* C16 (amended): consume(push(a, b), width(b)) returns a as the remaining
\* bitmap, in value, width and signedness, and as extracted value the bits of
\* b read with the signedness of a: two's complement at b's width when a is
\* signed, unsigned when a is not. That is the value of b whenever a and b
\* have the same signedness.
C16_ConsumeReadsPushedBitsAsBitmap ==
    RoundTrip("push", "consume")
        => /\ raised = "none"
           /\ output.bitmap = input[1].bitmap
           /\ output.value = << ReadAs(input[1].args[1], input[1].bitmap) >>
           /\ ((input[1].bitmap[2] < 0) = (input[1].args[1][2] < 0)
                  => output.value = << bitmap_value(input[1].args[1]) >>)

C16_Witness ==
    /\ RoundTrip("push", "consume")
    /\ input[1].bitmap = << 5, -3 >> /\ input[1].args[1] = << 3, 2 >>
    /\ output = [bitmap |-> << 5, -3 >>, value |-> << -1 >>]

\* C17 (as stated): for every pair of bitmaps a and b of either signedness,
\* insert(a, b) succeeds and shift(insert(a, b), width(b)) returns (a, b).
C17_ShiftInvertsInsert ==
    /\ op = "insert" => raised = "none"
    /\ RoundTrip("insert", "shift")
        => /\ raised = "none"
           /\ output.bitmap = input[1].bitmap
           /\ output.value = << bitmap_value(input[1].args[1]) >>

\* C18 (as stated): consume(b, n) and shift(b, n) with n greater than the
\* width of b raise no error and return what the call with n equal to the
\* width returns: an empty remaining bitmap and the whole value of b,
\* sign-extended at b's width when b is signed.
C18_ExcessClampsToWidth ==
    (Len(input) = 1 /\ op \in {"consume", "shift"}
        /\ input[1].args[1] > abs(input[1].bitmap[2]))
        => /\ raised = "none"
           /\ output.bitmap = << 0, 0 >>
           /\ output.value = << bitmap_value(input[1].bitmap) >>
           /\ op = "consume" =>
                output.value = << bitmap_consume(input[1].bitmap, abs(input[1].bitmap[2])).value >>
           /\ op = "shift" =>
                output.value = << bitmap_shift(input[1].bitmap, abs(input[1].bitmap[2])).value >>

\* the invariant of a bitmap
Valid(bitmap) == 0 <= bitmap[1] /\ bitmap[1] < 2^abs(bitmap[2])

\* C19: every bitmap returned by new, set, get, add, sub, mul, div, mod, grow,
\* shrink, push, insert, consume, shift, rol or ror for operands that satisfy
\* 0 <= value < 2^|width| satisfies it again.
C19_ResultIsValid ==
    (op # "init" /\ raised = "none") => Valid(output.bitmap)

C19_Witness ==
    /\ op = "mul" /\ raised = "none"
    /\ input = << Call("mul", << 5, -3 >>, << 3 >>) >>
    /\ output.bitmap = << 7, -3 >>

\* ---------------------------------------------- claims on SpecArithmetic

\* C20: add(b, k) and sub(b, k) return a bitmap of b's width and signedness
\* whose stored value is (value(b) + k) mod 2^|w|, respectively
\* (value(b) - k) mod 2^|w|; add((255,-8), 1) is (0,-8) and decodes to 0,
\* add((254,-8), 1) decodes to -1.
C20_AddSubAreModular ==
    /\ op = "add" =>
         output.bitmap = << (bitmap_value(input[1].bitmap) + input[1].args[1])
                                % 2^abs(input[1].bitmap[2]), input[1].bitmap[2] >>
    /\ op = "sub" =>
         output.bitmap = << (bitmap_value(input[1].bitmap) - input[1].args[1])
                                % 2^abs(input[1].bitmap[2]), input[1].bitmap[2] >>
    /\ input = << Call("add", << 255, -8 >>, << 1 >>) >> =>
         (output.bitmap = << 0, -8 >> /\ bitmap_value(output.bitmap) = 0)
    /\ input = << Call("add", << 254, -8 >>, << 1 >>) >> =>
         bitmap_value(output.bitmap) = -1

C20_Witness ==
    /\ input = << Call("add", << 255, -8 >>, << 1 >>) >>
    /\ output.bitmap = << 0, -8 >>
    /\ bitmap_value(output.bitmap) = 0

\* ---------------------------------------------------- claims on SpecRun

\* bit i of the bitmap is set
BitSet(bitmap, i) == (bitmap[1] \div 2^i) % 2 = 1

\* C21: for 0 <= position <= width, runlength(bitmap, value, position) is the
\* number of consecutive bits equal to value from bit position towards the
\* most-significant bit, up to the first differing bit or the end.
C21_RunlengthCountsEqualBits ==
    (op = "runlength" /\ input[1].args[2] \in 0..abs(input[1].bitmap[2]))
        => LET bitmap == input[1].bitmap
               val == input[1].args[1]
               pos == input[1].args[2]
               n == output.value[1]
           IN  /\ raised = "none"
               /\ n >= 0 /\ pos + n <= abs(bitmap[2])
               /\ \A i \in pos..pos + n - 1 : BitSet(bitmap, i) = val
               /\ pos + n < abs(bitmap[2]) => BitSet(bitmap, pos + n) # val

C21_Witness ==
    /\ op = "runlength" /\ raised = "none"
    /\ input = << Call("runlength", << 6, 3 >>, << TRUE, 1 >>) >>
    /\ output.value = << 2 >>

\* C30 (as stated): run(bitmap, position) terminates for every bitmap and
\* position, and the lengths of the runs it yielded sum to the number of bits
\* from the starting position to the end of the bitmap.
C30_RunTerminates ==
    (op = "run") ~> (/\ op = "done" /\ raised = "none"
                     /\ output.total = abs(output.bitmap[2]) - input[1].args[1])

\* ---------------------------------------------------- claims on SpecSeek

\* C22 (as stated): seek(offset) returns the cursor position that was current
\* immediately before the call, which is the offset of the previous seek
\* advanced by the bytes consumed or stored since, and makes offset the
\* current position.
C22_SeekReturnsPreviousCursor ==
    (ret.op = "seek" /\ input # <<>>)
        => (ret.prev = input[1] /\ offset = ret.amount)

\* --------------------------------------------------- claims on SpecAlign

\* C29 (as stated): an align(n) padding field at byte offset o has blocksize
\* (-o) mod n, so that the field after it starts at the next multiple of n,
\* for every positive n and every offset o.
C29_AlignPadsToMultiple ==
    op = "load"
        => /\ output.blocksize = (-output.offset) % input[1]
           /\ output.next % input[1] = 0
           /\ value[Len(value)].offset = output.next

\* ------------------------------------------------ claims on SpecInfinite

\* the bytes the provider holds from the offset of the array
BytesAhead == Max(Len(data) - position, 0)

\* an infinite array without a length and without a parent was loaded
UnboundedLoad == op = "load" /\ attrs.length = NoLength /\ custombs = NoLength

\* the array holds floor(N/s) initialized elements and one that is not
FullThenOnePartial ==
    LET n == BytesAhead \div attrs._object_
    IN  /\ raised = "none"
        /\ Len(value) = n + 1
        /\ \A j \in 1..n : type_initializedQ(value[j])
        /\ ~type_initializedQ(value[n + 1])

\* C28 (as stated): loading an unbounded array of elements of size s from a
\* provider holding N bytes ends without raising and yields floor(N/s)
\* initialized elements followed by exactly one that is not initialized, and
\* size() is the number of bytes N.
C28_InfiniteReadsAllBytes ==
    UnboundedLoad => (FullThenOnePartial /\ uninitialized_size(value) = BytesAhead)

\* C28 (amended): such a load ends without raising and yields floor(N/s)
\* initialized elements followed by exactly one that is not initialized;
\* size() counts the bytes read: all N from a string provider, which hands the
\* last element the bytes that remain, and floor(N/s)*s from a provider that
\* refuses a short read.
C28_InfiniteReadsWhatProviderGives ==
    UnboundedLoad =>
        /\ FullThenOnePartial
        /\ uninitialized_size(value) =
               IF pkind = "string" THEN BytesAhead
               ELSE (BytesAhead \div attrs._object_) * attrs._object_

C28_Witness ==
    /\ UnboundedLoad /\ pkind = "string" /\ position = 0
    /\ Len(data) = 5 /\ attrs._object_ = 2
    /\ Len(value) = 3 /\ value[3].value = << data[5] >>
    /\ uninitialized_size(value) = 5

\* ------------------------------------------------ claims on SpecFields

\* the structure declares a name twice among the fields that were created
DeclaresDuplicate ==
    \E j, k \in 1..Len(attrs.names) : j < k /\ _fields_[j].name = _fields_[k].name

\* C25: loading a structure that declares a field name more than once raises
\* no error for it, and the elements it creates all have different names, the
\* later ones of a name carrying a generated suffix.
C25_DuplicateNamesMadeDistinct ==
    (op \in {"fields", "break", "load"} /\ DeclaresDuplicate) =>
        \A j, k \in 1..Len(attrs.names) : j < k => attrs.names[j] # attrs.names[k]

C25_Witness ==
    /\ op = "load" /\ raised = "none" /\ DeclaresDuplicate
    /\ Len(value) = 2 /\ attrs.names = << <<1>>, <<1>> >>

\* the offset the declaration gives the field at index j of a structure
DeclaredOffset(j) == position + SumSeq([k \in 1..j - 1 |-> _fields_[k].length])

\* what the function of a field found: the elements of the fields declared
\* before it and no other, each at the offset it has now
FoundEarlierFields(found) ==
    /\ Len(found.value) = found.index - 1
    /\ found.index <= Len(value)
    /\ \A j \in 1..Len(found.value) :
        /\ found.value[j].offset = DeclaredOffset(j)
        /\ value[j].offset = found.value[j].offset

\* the functions ran in the order of declaration, each once
InDeclarationOrder ==
    /\ \A j, k \in 1..Len(output) : j < k => output[j].index < output[k].index
    /\ \A j \in 1..Len(output) : _fields_[output[j].index].function
    /\ \A j \in 1..Len(value) :
        _fields_[j].function => \E k \in 1..Len(output) : output[k].index = j

\* C27 (as stated): during the load of a structure the functions that give
\* the types of fields run in declaration order, and the function of field N
\* finds fields 0..N-1 in the structure at their final offsets with their
\* values decoded, and no later field.
C27_FunctionSeesDecodedFields ==
    op \in {"fields", "break", "load"} =>
        /\ InDeclarationOrder
        /\ \A k \in 1..Len(output) :
            /\ FoundEarlierFields(output[k])
            /\ \A j \in 1..Len(output[k].value) :
                type_initializedQ(output[k].value[j])

\* C27 (amended): the functions run in declaration order, and the function of
\* field N finds fields 0..N-1 in the structure at their final offsets and no
\* later field; of these, the fields whose type was itself a function have
\* been loaded and hold their decoded value, while the fields whose type was
\* given hold no value until they are loaded.
C27_FunctionSeesEarlierFields ==
    op \in {"fields", "break", "load"} =>
        /\ InDeclarationOrder
        /\ \A k \in 1..Len(output) :
            /\ FoundEarlierFields(output[k])
            /\ \A j \in 1..Len(output[k].value) :
                /\ type_initializedQ(output[k].value[j]) = _fields_[j].function
                /\ ~_fields_[j].function => output[k].value[j].value = None

C27_Witness ==
    /\ op = "load" /\ raised = "none" /\ position = 0
    /\ Len(_fields_) = 3 /\ Len(output) = 2
    /\ ~_fields_[1].function /\ _fields_[1].length = MaxLen
    /\ output[1].index = 2 /\ output[2].index = 3
    /\ output[2].value[1].value = None
    /\ type_initializedQ(output[2].value[2])
    /\ output[2].value[2].offset = MaxLen
    /\ type_initializedQ(value[1])

\* ------------------------------------------------ claims on SpecOffset

RECURSIVE LaidOut(_)
\* the elements of a container follow one another from its offset, each
\* after the size of the one before it if that is initialized and after its
\* blocksize if it is not, and so inside every element
LaidOut(n) ==
    IsContainer(n) /\ n.allocated =>
        \A i \in 1..Len(n.children) :
            /\ n.children[i].offset =
                   IF i = 1 THEN n.offset
                   ELSE n.children[i - 1].offset +
                        (IF element_initializedQ(n.children[i - 1])
                         THEN element_size(n.children[i - 1])
                         ELSE element_blocksize(n.children[i - 1]))
            /\ LaidOut(n.children[i])

\* C26: after setoffset(o, recurse=True) has returned, the first child of
\* the container is at o and every later child is at the offset of the child
\* before it plus that child's size() if it is initialized or its blocksize()
\* if it is not, and the same holds inside every nested container.
C26_RecursiveSetOffsetLaysOut ==
    (op = "setoffset" /\ raised = "none" /\ input[2]) =>
        /\ position = input[1]
        /\ LaidOut([offset |-> position, allocated |-> TRUE, children |-> value])

C26_Witness ==
    /\ op = "setoffset" /\ raised = "none" /\ input = <<1, TRUE>>
    /\ IsContainer(value[2]) /\ value[2].allocated
    /\ Len(value[2].children) = 2
    /\ ~element_initializedQ(value[2])
    /\ element_size(value[2]) # element_blocksize(value[2])
    /\ element_initializedQ(value[1]) /\ element_size(value[1]) # element_blocksize(value[1])
    /\ value[2].children[2].offset > value[2].offset
    /\ value[3].offset = 1 + element_size(value[1]) + element_blocksize(value[2])

\* ------------------------------------------------ claims on SpecAttributes

RECURSIVE At(_, _)
\* the instance found by descending from n through the indices of path
At(n, path) == IF path = <<>> THEN n ELSE At(n.children[path[1]], Tail(path))

RECURSIVE Descendants(_)
\* the paths to the instances below n
Descendants(n) ==
    UNION {{<<i>>} \cup {<<i>> \o q : q \in Descendants(n.children[i])} :
           i \in 1..Len(n.children)}

\* no instance from n down to the parent of the one at path ignores the name k
Reached(n, path, k) ==
    \A j \in 0..Len(path) - 1 : k \notin At(n, SubSeq(path, 1, j)).ignored

\* a name given outside the 'recurse' key only is set on the instance and
\* left as it was on every descendant
LocalStaysLocal ==
    \A k \in Keys :
        (input.given[k] # 0 /\ input.recurse[k] = 0) =>
            /\ root.set[k] = input.given[k]
            /\ root.attributes[k] = 0
            /\ \A d \in Descendants(root) :
                /\ At(root, d).set[k] = At(input.old, d).set[k]
                /\ At(root, d).attributes[k] = 0

C23_DereferenceReturnsNewInstance ==
    op = "dereference" =>
        /\ views[input[1]].offset = input[2]
        /\ \A j, k \in 1..Len(output) : j # k => output[j] # output[k]

\* changing a dereferenced instance leaves the raw value of the pointer as
\* it was
C23_PointerKeepsRawValue ==
    [][(op' \in {"set", "setoffset"}) => value' = value]_vars

====
